---- MODULE Spec2Model ----
(***************************************************************************)
(* Configuration reconciliation controller of the combo-chart extension:   *)
(* the App component (encoding-map effect, debounced save, settings-changed*)
(* reload, initial load), the DialogApp save/apply handlers and the        *)
(* SettingsDialog editing state, over the host's key-value settings store. *)
(***************************************************************************)
EXTENDS Integers, FiniteSets, Sequences, TLC

\* ---------------------------------------------------------------- bounds
\* number of loadData completions (encoding events) explored
MaxEncEvents == 3
\* number of user inputs to the settings dialog explored (openings of the
\* dialog and changes of a select)
MaxDialogInputs == 2

\* ------------------------------------------------------------ vocabulary
\* (the marks card reports the encoding ids dimension, bar1, bar2, line and
\* the unused detail)
\* the four data-mapping keys of the configuration
MappingKeys == {"dimension", "bar1Measure", "bar2Measure", "lineMeasure"}

\* the configuration keys carried by the model
ConfigKeys == MappingKeys \cup {"useManualMapping", "titleText"}

\* columns of the worksheet offered by the dialog's selects
DimensionColumns == {"Region"}
MeasureColumns == {"Sales", "Profit"}

\* default option table (Config.current before any load)
DefaultConfig ==
  [dimension |-> "", bar1Measure |-> "", bar2Measure |-> "", lineMeasure |-> "",
   useManualMapping |-> FALSE, titleText |-> "Combo Chart"]

\* the empty encoding map / the empty settings store
EmptyMap == [r \in {} |-> ""]

\* resolved encoding maps the host can report
EncMaps ==
  { EmptyMap,
    [r \in {"dimension", "bar1"} |-> IF r = "dimension" THEN "Region" ELSE "Sales"],
    [r \in {"dimension", "bar1"} |-> IF r = "dimension" THEN "Region" ELSE "Profit"],
    [r \in {"detail"} |-> "Region"] }

\* ------------------------------------------------------- pure operators
\* encodingMap.role || ''
EncValue(m, r) == IF r \in DOMAIN m THEN m[r] ELSE ""

\* variant: the guard lets every map through
HasEncodingsAlways(m) == TRUE

\* Object.keys(encodingMap).length > 0
HasEncodings(m) == DOMAIN m # {}

\* value != null ? String(value) : ''   (the flag is the boolean-typed key,
\* every other key of the model holds a string)
EncodeValue(k, v) ==
  IF k = "useManualMapping" THEN (IF v THEN "true" ELSE "false") ELSE v

\* try { JSON.parse(s) } catch { s }   (over the strings of the model)
DecodeValue(s) == IF s = "true" THEN TRUE ELSE IF s = "false" THEN FALSE ELSE s

\* Object.keys(cfg).forEach(key => settings.set(key, String(cfg[key])))
WriteSettings(cfg) == [k \in ConfigKeys |-> EncodeValue(k, cfg[k])]

\* variant: a key that is not stored is left undefined
OverlaySettingsStoredOnly(base, stored) ==
  [k \in ConfigKeys |-> IF k \in DOMAIN stored THEN DecodeValue(stored[k]) ELSE "undefined"]

\* base config overlaid key by key with the decoded stored values
OverlaySettings(base, stored) ==
  [k \in ConfigKeys |-> IF k \in DOMAIN stored THEN DecodeValue(stored[k]) ELSE base[k]]

\* variant: only the dimension is compared
MappingUnchangedDimensionOnly(cfg, m) == cfg.dimension = EncValue(m, "dimension")

\* prevConfig.x === newX for the four mapping fields
MappingUnchanged(cfg, m) ==
  /\ cfg.dimension = EncValue(m, "dimension")
  /\ cfg.bar1Measure = EncValue(m, "bar1")
  /\ cfg.bar2Measure = EncValue(m, "bar2")
  /\ cfg.lineMeasure = EncValue(m, "line")

\* updatedConfig of the encoding effect
EncodingConfig(cfg, m) ==
  [cfg EXCEPT !.dimension = EncValue(m, "dimension"),
              !.bar1Measure = EncValue(m, "bar1"),
              !.bar2Measure = EncValue(m, "bar2"),
              !.lineMeasure = EncValue(m, "line"),
              !.useManualMapping = FALSE]

\* variant: the line measure is left out of the comparison
DataMappingChangedNoLine(cfg, m) ==
  \/ cfg.dimension # EncValue(m, "dimension")
  \/ cfg.bar1Measure # EncValue(m, "bar1")
  \/ cfg.bar2Measure # EncValue(m, "bar2")

\* dataMappingChanged of handleSave / handleApply
DataMappingChanged(cfg, m) ==
  \/ cfg.dimension # EncValue(m, "dimension")
  \/ cfg.bar1Measure # EncValue(m, "bar1")
  \/ cfg.bar2Measure # EncValue(m, "bar2")
  \/ cfg.lineMeasure # EncValue(m, "line")

\* configToSave of handleSave / handleApply
ConfigToSave(cfg, m) == [cfg EXCEPT !.useManualMapping = DataMappingChanged(cfg, m)]

\* configurations the Data tab can produce from the worksheet's columns
EditableConfigs ==
  { c \in [dimension : {""} \cup DimensionColumns,
           bar1Measure : {""} \cup MeasureColumns,
           bar2Measure : {""} \cup MeasureColumns,
           lineMeasure : {""} \cup MeasureColumns,
           useManualMapping : BOOLEAN,
           titleText : {"Combo Chart"}] :
      /\ c.bar1Measure = "" \/ c.bar1Measure \notin {c.bar2Measure, c.lineMeasure}
      /\ c.bar2Measure = "" \/ c.bar2Measure # c.lineMeasure }

\* settings stores a session can start from: none, a complete one, and one
\* that holds only some of the keys
InitialSettings ==
  { EmptyMap,
    WriteSettings([DefaultConfig EXCEPT !.dimension = "Region", !.bar1Measure = "Profit",
                                        !.useManualMapping = TRUE]),
    [k \in {"useManualMapping", "dimension"} |->
       IF k = "dimension" THEN "Region" ELSE "false"] }

\* ---------------------------------------------------------------- state
VARIABLES
  phase,            \* "init" | "running" | "torn"  (initialized / unmounted)
  config,           \* App's React state `config`
  configCurrent,    \* Config.current of the extension context
  encodingMap,      \* hook state `encodingMap`
  hostSettings,     \* tableau.extensions.settings (key -> string)
  saveTimerRef,     \* saveTimerRef.current: 0 for null, else a timer handle
  timers,           \* live timeouts: [id, cfg, st], st "pending" | "saving"
  nextTimerId,      \* next handle setTimeout returns
  cleanupSet,       \* the last run of the encoding effect returned a cleanup
  settingsEvent,    \* a SettingsChanged event is delivered, not yet handled
  loadPending,      \* loadData() started by a 'saved' dialog close, not done
  encEvents,        \* loadData completions so far
  dialogOpen,       \* the settings dialog window exists
  dialogEnc,        \* DialogApp state `encodingMap` (from the payload)
  dialogConfig,     \* DialogApp state `config`
  localConfig,      \* SettingsDialog state `localConfig`
  bannerReset,      \* history: the last input to the dialog was the banner's Reset
  writeTick,        \* history: flips at every Save/Apply write of the dialog
  dialogInputs,     \* dialog openings and select changes so far
  hasLoadedInitialSettings,  \* App ref hasLoadedInitialSettings.current
  initialLoads,     \* history: executions of loadInitialConfig
  dataListener,     \* the SummaryDataChanged listener is registered
  loading,          \* hook state `loading`
  error,            \* hook state `error`: "null" or the message
  lastLoad,         \* history: outcome of the last completed loadData
  chartProps,       \* <<[data, config]>>: props ComboChart is rendered with
  rendered,         \* <<what the render effect has drawn for them>>
  tooltipCall,      \* <<arguments of the showTooltip call>>
  tooltipContent,   \* <<rows of the tooltip element>>
  resolveCall,      \* <<arguments of the resolveFieldName call>>
  resolveResult,    \* <<its return value>>
  fnCall,           \* <<arguments of the call of a utility function>>
  fnResult,         \* <<its return value>>
  svg,              \* elements under the svg node of ComboChart
  transitions,      \* d3 transitions that have not ended
  generation,       \* history: runs of the render effect
  inFlight,         \* loadData calls awaiting the host
  started,          \* history: loadData calls started
  shown             \* hook state `data`/`columns`: <<load that set them>>

vars == <<phase, config, configCurrent, encodingMap, hostSettings, saveTimerRef,
          timers, nextTimerId, cleanupSet, settingsEvent, loadPending, encEvents,
          dialogOpen, dialogEnc, dialogConfig, localConfig, bannerReset, writeTick,
          dialogInputs, hasLoadedInitialSettings, initialLoads, dataListener,
          loading, error, lastLoad, chartProps, rendered, tooltipCall,
          tooltipContent, resolveCall, resolveResult, fnCall, fnResult, svg,
          transitions, generation, inFlight, started, shown>>

appVars == <<phase, config, configCurrent, encodingMap, saveTimerRef, timers,
             nextTimerId, cleanupSet, encEvents>>

dialogVars == <<dialogOpen, dialogEnc, dialogConfig, localConfig, bannerReset,
                writeTick, dialogInputs>>

hostVars == <<hostSettings, settingsEvent, loadPending>>

hookVars == <<hasLoadedInitialSettings, initialLoads, dataListener, loading, error,
              lastLoad>>

fnVars == <<fnCall, fnResult>>

surfaceVars == <<svg, transitions, generation>>

loadVars == <<inFlight, started, shown>>

auxVars == <<fnVars, surfaceVars, loadVars>>

viewVars == <<chartProps, rendered, tooltipCall, tooltipContent, resolveCall,
              resolveResult, auxVars>>

\* nothing drawn, no transition running
SurfaceIdle ==
  /\ svg = {}
  /\ transitions = {}
  /\ generation = 0

\* no load started
LoadIdle ==
  /\ inFlight = {}
  /\ started = 0
  /\ shown = <<>>

\* no utility function called, nothing drawn, no load started
AuxIdle ==
  /\ fnCall = <<>>
  /\ fnResult = <<>>
  /\ SurfaceIdle
  /\ LoadIdle

\* nothing rendered, hovered or resolved yet (each of these variables is a
\* sequence: empty, or holding the one value)
ViewIdle ==
  /\ chartProps = <<>>
  /\ rendered = <<>>
  /\ tooltipCall = <<>>
  /\ tooltipContent = <<>>
  /\ resolveCall = <<>>
  /\ resolveResult = <<>>
  /\ AuxIdle

\* state of the hook and the App's refs at construction
HookInit ==
  /\ hasLoadedInitialSettings = FALSE
  /\ initialLoads = 0
  /\ dataListener = FALSE
  /\ loading = TRUE
  /\ error = "null"
  /\ lastLoad = "none"

Init ==
  /\ phase = "init"
  /\ config = DefaultConfig
  /\ configCurrent = DefaultConfig
  /\ encodingMap = EmptyMap
  /\ hostSettings \in InitialSettings
  /\ saveTimerRef = 0
  /\ timers = {}
  /\ nextTimerId = 1
  /\ cleanupSet = FALSE
  /\ settingsEvent = FALSE
  /\ loadPending = FALSE
  /\ encEvents = 0
  /\ dialogOpen = FALSE
  /\ dialogEnc = EmptyMap
  /\ dialogConfig = DefaultConfig
  /\ localConfig = DefaultConfig
  /\ bannerReset = FALSE
  /\ writeTick = FALSE
  /\ dialogInputs = 0
  /\ HookInit
  /\ ViewIdle

\* ------------------------------------------------------------ App actions
\* clearTimeout(handle): removes the timeout if it has not fired yet
ClearTimeout(ts, handle) == {t \in ts : ~(t.id = handle /\ t.st = "pending")}

\* cleanup of the encoding effect: if (saveTimerRef.current) clearTimeout(...)
EffectCleanup(ts, ref, registered) ==
  IF registered /\ ref # 0 THEN ClearTimeout(ts, ref) ELSE ts

\* the settings read back: defaults overlaid when any key is stored
LoadSettings(base, stored) ==
  IF DOMAIN stored # {} THEN OverlaySettings(base, stored) ELSE base

\* saveTimerRef.current = null after the awaited saveAsync
RefAfterSave(ref, t) == 0

\* variant: the initial-load effect runs at every render
InitialLoadDueAlways(initializedChanged, init, loaded) == TRUE

\* the initial-load effect runs when its dependency [initialized] has changed
\* and passes its guard: initialized && !hasLoadedInitialSettings.current
InitialLoadDue(initializedChanged, init, loaded) ==
  initializedChanged /\ init /\ ~loaded

\* guard of the encoding effect: initialized && hasLoadedInitialSettings.current
EffectReady(init, loaded) == init /\ loaded

\* getEncodingMap: the marks card's map, or {} when the fetch throws
GetEncodingMap(encOk, m) == IF encOk THEN m ELSE EmptyMap

\* variant: a failed encoding fetch is reported like a failed row fetch
LoadErrorAnyFailure(encOk, rowsOk) ==
  IF encOk /\ rowsOk THEN "null" ELSE "Failed to load data"

\* hook state `error` after loadData: setError(null) at the end of the try
\* block, setError(message) in the catch block
LoadError(encOk, rowsOk) == IF rowsOk THEN "null" ELSE "Failed to load data"

\* initializeAsync resolves: Config.init(), setInitialized(true), loadData()
\* is started and the SummaryDataChanged listener added; the render that
\* follows runs the initial-load effect (loadInitialConfig) and the encoding
\* effect, which returns early on the still empty map
Initialize ==
  /\ phase = "init"
  /\ phase' = "running"
  /\ dataListener' = TRUE
  /\ loadPending' = TRUE
  /\ LET due == InitialLoadDue(TRUE, TRUE, hasLoadedInitialSettings)
     IN /\ config' = IF due THEN LoadSettings(configCurrent, hostSettings) ELSE config
        /\ configCurrent' = IF due THEN LoadSettings(configCurrent, hostSettings)
                                   ELSE configCurrent
        /\ hasLoadedInitialSettings' = (hasLoadedInitialSettings \/ due)
        /\ initialLoads' = initialLoads + (IF due THEN 1 ELSE 0)
  /\ UNCHANGED <<encodingMap, saveTimerRef, timers, nextTimerId, cleanupSet, encEvents>>
  /\ UNCHANGED <<hostSettings, settingsEvent>>
  /\ UNCHANGED <<loading, error, lastLoad>>
  /\ UNCHANGED dialogVars
  /\ UNCHANGED viewVars

\* the render that follows a new encodingMap: the initial-load effect is
\* evaluated and the encoding effect re-run (cleanup of the previous run,
\* then the effect body with the setConfig updater and
\* debouncedSaveToTableau)
EncodingEffects(m) ==
  /\ LET due == InitialLoadDue(FALSE, TRUE, hasLoadedInitialSettings)
         prevConfig == IF due THEN LoadSettings(configCurrent, hostSettings) ELSE config
         prevCurrent == IF due THEN LoadSettings(configCurrent, hostSettings)
                               ELSE configCurrent
         cleared == EffectCleanup(timers, saveTimerRef, cleanupSet)
     IN /\ hasLoadedInitialSettings' = (hasLoadedInitialSettings \/ due)
        /\ initialLoads' = initialLoads + (IF due THEN 1 ELSE 0)
        /\ IF ~EffectReady(TRUE, hasLoadedInitialSettings \/ due) \/ ~HasEncodings(m)
           THEN /\ timers' = cleared
                /\ cleanupSet' = FALSE
                /\ config' = prevConfig
                /\ configCurrent' = prevCurrent
                /\ UNCHANGED <<saveTimerRef, nextTimerId>>
           ELSE /\ cleanupSet' = TRUE
                /\ IF MappingUnchanged(prevConfig, m)
                   THEN /\ timers' = cleared
                        /\ config' = prevConfig
                        /\ configCurrent' = prevCurrent
                        /\ UNCHANGED <<saveTimerRef, nextTimerId>>
                   ELSE LET updatedConfig == EncodingConfig(prevConfig, m)
                        IN /\ config' = updatedConfig
                           /\ configCurrent' = updatedConfig
                           /\ timers' = ClearTimeout(cleared, saveTimerRef) \cup
                                 {[id |-> nextTimerId, cfg |-> updatedConfig, st |-> "pending"]}
                           /\ saveTimerRef' = nextTimerId
                           /\ nextTimerId' = nextTimerId + 1

\* loadData completes its try block with resolved map m: setEncodingMap(m),
\* setError(null), setLoading(false). The render that follows evaluates the
\* initial-load effect and re-runs the encoding effect (cleanup of the
\* previous run, then the effect body with the setConfig updater and
\* debouncedSaveToTableau)
LoadCompletes(m, outcome) ==
  /\ phase = "running"
  /\ encEvents < MaxEncEvents
  /\ encEvents' = encEvents + 1
  /\ encodingMap' = m
  /\ loadPending' = FALSE
  /\ loading' = FALSE
  /\ error' = LoadError(outcome = "ok", TRUE)
  /\ lastLoad' = outcome
  /\ EncodingEffects(m)
  /\ UNCHANGED <<phase, hostSettings, settingsEvent, dataListener>>
  /\ UNCHANGED dialogVars
  /\ UNCHANGED viewVars

\* loadData's catch block: getSummaryDataAsync rejected; setError(message),
\* setLoading(false); the encoding map keeps its value
LoadFails(encOk) ==
  /\ phase = "running"
  /\ encEvents < MaxEncEvents
  /\ encEvents' = encEvents + 1
  /\ loadPending' = FALSE
  /\ loading' = FALSE
  /\ error' = LoadError(encOk, FALSE)
  /\ lastLoad' = "rowsFailed"
  /\ UNCHANGED <<phase, config, configCurrent, encodingMap, saveTimerRef, timers,
                 nextTimerId, cleanupSet, hostSettings, settingsEvent>>
  /\ UNCHANGED <<hasLoadedInitialSettings, initialLoads, dataListener>>
  /\ UNCHANGED dialogVars
  /\ UNCHANGED viewVars

\* one loadData call run to completion: Promise.all of getEncodingMap (which
\* absorbs its own failure) and getSummaryDataAsync, m being the resolved
\* map of the marks card
LoadData(m, encOk, rowsOk) ==
  IF rowsOk
  THEN LoadCompletes(GetEncodingMap(encOk, m), IF encOk THEN "ok" ELSE "encFailed")
  ELSE LoadFails(encOk)

\* a loadData call in which both fetches succeed
EncodingEvent(m) == LoadData(m, TRUE, TRUE)

\* the 2 s timeout fires: settings.set for every key of the captured config,
\* then saveAsync is awaited
TimerFire(t) ==
  /\ t \in timers
  /\ t.st = "pending"
  /\ hostSettings' = WriteSettings(t.cfg)
  /\ timers' = (timers \ {t}) \cup {[t EXCEPT !.st = "saving"]}
  /\ UNCHANGED <<phase, config, configCurrent, encodingMap, saveTimerRef, nextTimerId,
                 cleanupSet, settingsEvent, loadPending, encEvents>>
  /\ UNCHANGED dialogVars
  /\ UNCHANGED hookVars
  /\ UNCHANGED viewVars

\* saveAsync of a fired timeout resolves: saveTimerRef.current = null
SaveComplete(t) ==
  /\ t \in timers
  /\ t.st = "saving"
  /\ timers' = timers \ {t}
  /\ saveTimerRef' = RefAfterSave(saveTimerRef, t)
  /\ UNCHANGED <<phase, config, configCurrent, encodingMap, nextTimerId, cleanupSet,
                 encEvents>>
  /\ UNCHANGED hostVars
  /\ UNCHANGED dialogVars
  /\ UNCHANGED hookVars
  /\ UNCHANGED viewVars

\* SettingsChanged listener: reload the whole config from host settings
HandleSettingsChanged ==
  /\ phase = "running"
  /\ settingsEvent
  /\ settingsEvent' = FALSE
  /\ config' = LoadSettings(configCurrent, hostSettings)
  /\ configCurrent' = LoadSettings(configCurrent, hostSettings)
  /\ LET due == InitialLoadDue(FALSE, TRUE, hasLoadedInitialSettings)
     IN /\ hasLoadedInitialSettings' = (hasLoadedInitialSettings \/ due)
        /\ initialLoads' = initialLoads + (IF due THEN 1 ELSE 0)
  /\ UNCHANGED <<phase, encodingMap, hostSettings, saveTimerRef, timers, nextTimerId,
                 cleanupSet, loadPending, encEvents>>
  /\ UNCHANGED <<dataListener, loading, error, lastLoad>>
  /\ UNCHANGED dialogVars
  /\ UNCHANGED viewVars

\* what unmounting leaves of the SummaryDataChanged subscription: the
\* initialization effect returns nothing to React (the function that calls
\* removeEventListener is the return value of the .then callback)
ListenerAfterUnmount(registered) == registered

\* the App component unmounts: the effect cleanups run, the dialog goes away
Teardown ==
  /\ phase = "running"
  /\ phase' = "torn"
  /\ timers' = EffectCleanup(timers, saveTimerRef, cleanupSet)
  /\ dialogOpen' = FALSE
  /\ dialogEnc' = EmptyMap
  /\ dialogConfig' = DefaultConfig
  /\ localConfig' = DefaultConfig
  /\ bannerReset' = FALSE
  /\ UNCHANGED <<config, configCurrent, encodingMap, saveTimerRef, nextTimerId,
                 cleanupSet, encEvents, writeTick, dialogInputs>>
  /\ dataListener' = ListenerAfterUnmount(dataListener)
  /\ UNCHANGED <<hasLoadedInitialSettings, initialLoads, loading, error, lastLoad>>
  /\ UNCHANGED hostVars
  /\ UNCHANGED viewVars

\* the host raises SummaryDataChanged: the registered listener calls loadData,
\* whose first statement is setLoading(true)
DataChanged ==
  /\ dataListener
  /\ ~loadPending
  /\ loadPending' = TRUE
  /\ loading' = (phase = "running" \/ loading)
  /\ UNCHANGED <<hostSettings, settingsEvent>>
  /\ UNCHANGED <<hasLoadedInitialSettings, initialLoads, dataListener, error, lastLoad>>
  /\ UNCHANGED appVars
  /\ UNCHANGED dialogVars
  /\ UNCHANGED viewVars

\* refreshData: the header's refresh button or the error screen's Retry
RefreshData ==
  /\ phase = "running"
  /\ ~loadPending
  /\ loadPending' = TRUE
  /\ loading' = TRUE
  /\ UNCHANGED <<hostSettings, settingsEvent>>
  /\ UNCHANGED <<hasLoadedInitialSettings, initialLoads, dataListener, error, lastLoad>>
  /\ UNCHANGED appVars
  /\ UNCHANGED dialogVars
  /\ UNCHANGED viewVars

\* a loadData call started after the unmount ends: its state setters act on
\* an unmounted component
LoadAfterUnmount ==
  /\ phase = "torn"
  /\ loadPending
  /\ loadPending' = FALSE
  /\ UNCHANGED <<hostSettings, settingsEvent>>
  /\ UNCHANGED hookVars
  /\ UNCHANGED appVars
  /\ UNCHANGED dialogVars
  /\ UNCHANGED viewVars

\* --------------------------------------------------------- dialog actions
\* JSON.stringify(localConfig) !== JSON.stringify(config)
HasChanges == localConfig # dialogConfig

\* options of a mapping select: "None" plus the eligible columns
\* (getAvailableMeasures hides measures selected in another measure slot)
SelectOptions(k, cfg) ==
  IF k = "dimension"
  THEN {""} \cup DimensionColumns
  ELSE {""} \cup {c \in MeasureColumns :
                    \A o \in (MappingKeys \ {"dimension", k}) : cfg[o] # c}

\* openConfigDialog + DialogApp initialisation from the payload:
\* defaults, overlaid by the stored settings, overlaid by the payload config
OpenDialog ==
  /\ phase = "running"
  /\ ~dialogOpen
  /\ dialogInputs < MaxDialogInputs
  /\ dialogInputs' = dialogInputs + 1
  /\ dialogOpen' = TRUE
  /\ dialogEnc' = encodingMap
  /\ LET payloadConfig == configCurrent
         stored == LoadSettings(DefaultConfig, hostSettings)
         loadedConfig == [k \in ConfigKeys |->
                            IF k \in DOMAIN payloadConfig THEN payloadConfig[k] ELSE stored[k]]
     IN /\ dialogConfig' = loadedConfig
        /\ localConfig' = loadedConfig
  /\ bannerReset' = FALSE
  /\ UNCHANGED writeTick
  /\ UNCHANGED appVars
  /\ UNCHANGED hostVars
  /\ UNCHANGED hookVars
  /\ UNCHANGED viewVars

\* updateConfig(key, value) from a select of the Data tab
DialogEdit(k, v) ==
  /\ dialogOpen
  /\ localConfig[k] # v
  /\ dialogInputs < MaxDialogInputs
  /\ dialogInputs' = dialogInputs + 1
  /\ localConfig' = [localConfig EXCEPT ![k] = v]
  /\ bannerReset' = FALSE
  /\ UNCHANGED <<dialogOpen, dialogEnc, dialogConfig, writeTick>>
  /\ UNCHANGED appVars
  /\ UNCHANGED hostVars
  /\ UNCHANGED hookVars
  /\ UNCHANGED viewVars

\* Reset button of the manual-override banner (shown while the flag is set)
ManualReset ==
  /\ dialogOpen
  /\ localConfig.useManualMapping
  /\ localConfig' = [localConfig EXCEPT !.useManualMapping = FALSE]
  /\ bannerReset' = TRUE
  /\ UNCHANGED <<dialogOpen, dialogEnc, dialogConfig, writeTick, dialogInputs>>
  /\ UNCHANGED appVars
  /\ UNCHANGED hostVars
  /\ UNCHANGED hookVars
  /\ UNCHANGED viewVars

\* footer Reset (handleReset): setLocalConfig({ ...config }), enabled by hasChanges
DialogRevert ==
  /\ dialogOpen
  /\ HasChanges
  /\ localConfig' = dialogConfig
  /\ bannerReset' = FALSE
  /\ UNCHANGED <<dialogOpen, dialogEnc, dialogConfig, writeTick, dialogInputs>>
  /\ UNCHANGED appVars
  /\ UNCHANGED hostVars
  /\ UNCHANGED hookVars
  /\ UNCHANGED viewVars

\* handleApply: write configToSave, saveAsync, setConfig(configToSave)
DialogApply ==
  /\ dialogOpen
  /\ HasChanges
  /\ writeTick' = ~writeTick
  /\ hostSettings' = WriteSettings(ConfigToSave(localConfig, dialogEnc))
  /\ dialogConfig' = ConfigToSave(localConfig, dialogEnc)
  /\ settingsEvent' = TRUE
  /\ UNCHANGED <<dialogOpen, dialogEnc, localConfig, bannerReset, dialogInputs>>
  /\ UNCHANGED loadPending
  /\ UNCHANGED appVars
  /\ UNCHANGED hookVars
  /\ UNCHANGED viewVars

\* handleSave: write configToSave, saveAsync, closeDialog('saved');
\* the extension then starts loadData()
DialogSave ==
  /\ dialogOpen
  /\ writeTick' = ~writeTick
  /\ hostSettings' = WriteSettings(ConfigToSave(localConfig, dialogEnc))
  /\ settingsEvent' = TRUE
  /\ loadPending' = TRUE
  /\ dialogOpen' = FALSE
  /\ dialogEnc' = EmptyMap
  /\ dialogConfig' = DefaultConfig
  /\ localConfig' = DefaultConfig
  /\ bannerReset' = FALSE
  /\ UNCHANGED dialogInputs
  /\ UNCHANGED appVars
  /\ loading' = TRUE
  /\ UNCHANGED <<hasLoadedInitialSettings, initialLoads, dataListener, error, lastLoad>>
  /\ UNCHANGED viewVars

\* handleClose: closeDialog('')
DialogClose ==
  /\ dialogOpen
  /\ dialogOpen' = FALSE
  /\ dialogEnc' = EmptyMap
  /\ dialogConfig' = DefaultConfig
  /\ localConfig' = DefaultConfig
  /\ bannerReset' = FALSE
  /\ UNCHANGED <<writeTick, dialogInputs>>
  /\ UNCHANGED appVars
  /\ UNCHANGED hostVars
  /\ UNCHANGED hookVars
  /\ UNCHANGED viewVars

\* ------------------------------------------------------- specifications
\* the extension and its settings dialog together
Next ==
  \/ Initialize
  \/ \E m \in EncMaps : EncodingEvent(m)
  \/ \E t \in timers : TimerFire(t)
  \/ \E t \in timers : SaveComplete(t)
  \/ HandleSettingsChanged
  \/ Teardown
  \/ OpenDialog
  \/ \E k \in MappingKeys : \E v \in SelectOptions(k, localConfig) : DialogEdit(k, v)
  \/ ManualReset
  \/ DialogRevert
  \/ DialogApply
  \/ DialogSave
  \/ DialogClose

Spec == Init /\ [][Next]_vars

\* the extension alone, started over any settings a dialog can have stored
EncodingInit ==
  /\ phase = "init"
  /\ config = DefaultConfig
  /\ configCurrent = DefaultConfig
  /\ encodingMap = EmptyMap
  /\ hostSettings \in {EmptyMap} \cup {WriteSettings(c) : c \in EditableConfigs}
  /\ saveTimerRef = 0
  /\ timers = {}
  /\ nextTimerId = 1
  /\ cleanupSet = FALSE
  /\ settingsEvent = FALSE
  /\ loadPending = FALSE
  /\ encEvents = 0
  /\ dialogOpen = FALSE
  /\ dialogEnc = EmptyMap
  /\ dialogConfig = DefaultConfig
  /\ localConfig = DefaultConfig
  /\ bannerReset = FALSE
  /\ writeTick = FALSE
  /\ dialogInputs = 0
  /\ HookInit
  /\ ViewIdle

EncodingNext ==
  \/ Initialize
  \/ \E m \in EncMaps : EncodingEvent(m)
  \/ \E t \in timers : TimerFire(t)
  \/ \E t \in timers : SaveComplete(t)
  \/ Teardown

EncodingSpec == EncodingInit /\ [][EncodingNext]_vars

\* the settings dialog alone, opened on any payload (config, encoding map)
DialogInit ==
  /\ phase = "running"
  /\ config \in EditableConfigs
  /\ configCurrent = config
  /\ encodingMap \in EncMaps
  /\ hostSettings = EmptyMap
  /\ saveTimerRef = 0
  /\ timers = {}
  /\ nextTimerId = 1
  /\ cleanupSet = FALSE
  /\ settingsEvent = FALSE
  /\ loadPending = FALSE
  /\ encEvents = 0
  /\ dialogOpen = TRUE
  /\ dialogEnc = encodingMap
  /\ dialogConfig = config
  /\ localConfig = config
  /\ bannerReset = FALSE
  /\ writeTick = FALSE
  /\ dialogInputs = 1
  /\ hasLoadedInitialSettings = TRUE
  /\ initialLoads = 1
  /\ dataListener = TRUE
  /\ loading = FALSE
  /\ error = "null"
  /\ lastLoad = "ok"
  /\ ViewIdle

DialogNext ==
  \/ \E k \in MappingKeys : \E v \in SelectOptions(k, localConfig) : DialogEdit(k, v)
  \/ ManualReset
  \/ DialogRevert
  \/ DialogApply
  \/ DialogSave
  \/ DialogClose

DialogSpec == DialogInit /\ [][DialogNext]_vars

\* the data hook with the App's effects: loads that succeed or fail, host
\* data-changed events, refreshes and the unmount
HookNext ==
  \/ Initialize
  \/ DataChanged
  \/ RefreshData
  \/ \E m \in EncMaps : \E encOk, rowsOk \in BOOLEAN :
        loadPending /\ LoadData(m, encOk, rowsOk)
  \/ \E t \in timers : TimerFire(t)
  \/ \E t \in timers : SaveComplete(t)
  \/ Teardown
  \/ LoadAfterUnmount

HookSpec == Init /\ [][HookNext]_vars

\* ------------------------------------------------------------ ComboChart
\* rows given to the chart in one render
MaxRows == 2
\* positive measure values are 10, 20, ... up to ten times this
MaxValue == 2

\* category labels of the rows
Categories == {"East", "West"}

\* processed rows: column name -> cell value
ChartRows ==
  [Region : Categories, Sales : {10 * k : k \in 1..MaxValue} \cup {0 - 10},
   Profit : {10, 30}]

\* the `data` prop: null/empty or up to MaxRows rows
ChartDataSets == UNION {[1..n -> ChartRows] : n \in 0..MaxRows}

\* the options of `config` the drawing depends on in the model; an optional
\* number is <<>> for null and <<n>> for n. barStyle and axisMode also take a
\* value outside their lists, as a stored setting can hold one. The other
\* options keep their defaults (syncDualAxis false, xAxisSort 'default',
\* lineVerticalPosition 'auto', showPoints on, axes shown, right axis
\* including zero, no explicit maxima)
ChartConfigs ==
  [dimension : {"", "Region"}, bar1Measure : {"", "Sales"},
   bar2Measure : {"", "Profit"}, lineMeasure : {"", "Sales"},
   barStyle : {"grouped", "stacked", "overlay"}, animationEnabled : BOOLEAN,
   animationDuration : {500}, yAxisLeftIncludeZero : BOOLEAN,
   yAxisLeftMin : {<<>>, <<5>>}, axisMode : {"dual", "shared", "single"}]

SetMax(S) == CHOOSE x \in S : \A y \in S : y <= x
SetMin(S) == CHOOSE x \in S : \A y \in S : x <= y

\* x || 1
OrOne(x) == IF x = 0 THEN 1 ELSE x

\* parseFloat(d[field]?.value) || 0
RowValue(row, field) == IF field \in DOMAIN row THEN row[field] ELSE 0

\* chartData: one record per row, an unmapped measure read as 0
ChartData(data, cfg) ==
  [i \in 1..Len(data) |->
     [category |-> data[i][cfg.dimension],
      bar1 |-> IF cfg.bar1Measure # "" THEN RowValue(data[i], cfg.bar1Measure) ELSE 0,
      bar2 |-> IF cfg.bar2Measure # "" THEN RowValue(data[i], cfg.bar2Measure) ELSE 0,
      line |-> IF cfg.lineMeasure # "" THEN RowValue(data[i], cfg.lineMeasure) ELSE 0]]

\* Math.min(bar1Min, bar2Min), an unmapped series contributing [0]
BarMin(cd, cfg) ==
  LET bar1Values == IF cfg.bar1Measure # "" THEN {cd[i].bar1 : i \in DOMAIN cd} ELSE {0}
      bar2Values == IF cfg.bar2Measure # "" THEN {cd[i].bar2 : i \in DOMAIN cd} ELSE {0}
  IN SetMin({SetMin(bar1Values), SetMin(bar2Values)})

\* yLeftDomain in tenths of a unit ([min, max]); in shared axis mode the
\* extents of the bars and the line are combined
YLeftDomain(cd, cfg) ==
  LET hasBar1 == cfg.bar1Measure # ""
      hasBar2 == cfg.bar2Measure # ""
      bar1Values == IF hasBar1 THEN {cd[i].bar1 : i \in DOMAIN cd} ELSE {0}
      bar2Values == IF hasBar2 THEN {cd[i].bar2 : i \in DOMAIN cd} ELSE {0}
      lineValues == IF cfg.lineMeasure # "" THEN {cd[i].line : i \in DOMAIN cd} ELSE {0}
      stackedMax == SetMax({(IF hasBar1 THEN cd[i].bar1 ELSE 0) +
                            (IF hasBar2 THEN cd[i].bar2 ELSE 0) : i \in DOMAIN cd})
      barMax == OrOne(SetMax({SetMax(bar1Values), SetMax(bar2Values)}))
      isSharedAxis == cfg.axisMode = "shared"
      combinedMax == SetMax({SetMax(bar1Values), SetMax(bar2Values), SetMax(lineValues)}) * 11
      combinedMin == IF cfg.yAxisLeftIncludeZero THEN 0
                     ELSE SetMin({BarMin(cd, cfg), SetMin(lineValues)}) * 9
      autoMin == IF isSharedAxis THEN combinedMin
                 ELSE IF cfg.yAxisLeftIncludeZero THEN 0 ELSE BarMin(cd, cfg) * 9
      autoMax == IF isSharedAxis THEN combinedMax
                 ELSE IF cfg.barStyle = "stacked" THEN OrOne(stackedMax) * 11
                 ELSE barMax * 11
  IN << IF cfg.yAxisLeftMin # <<>> THEN 10 * cfg.yAxisLeftMin[1] ELSE autoMin, autoMax >>

\* yRightDomain in tenths of a unit
YRightDomain(cd, cfg) ==
  LET lineValues == IF cfg.lineMeasure # "" THEN {cd[i].line : i \in DOMAIN cd} ELSE {0}
  IN <<0, OrOne(SetMax(lineValues)) * 11>>

\* the domain given to the right scale: the left one in shared axis mode
YRightScaleDomain(cd, cfg) ==
  IF cfg.axisMode = "shared" THEN YLeftDomain(cd, cfg) ELSE YRightDomain(cd, cfg)

\* d3 tickIncrement(start, stop, 10) for a span given in tenths: 1, 2 or 5
\* times a power of ten, the thresholds being sqrt(2), sqrt(10), sqrt(50)
TickIncrement(span) ==
  CASE span <= 14   -> 1
    [] span <= 31   -> 2
    [] span <= 70   -> 5
    [] span <= 141  -> 10
    [] span <= 316  -> 20
    [] span <= 707  -> 50
    [] span <= 1414 -> 100
    [] OTHER        -> 200

RECURSIVE NiceFrom(_, _, _, _)
\* the loop of scale.nice(): extend to multiples of the step until the step
\* is the one of the previous round
NiceFrom(start, stop, prestep, rounds) ==
  LET step == TickIncrement(stop - start)
  IN IF rounds = 0 \/ stop = start THEN <<>>
     ELSE IF step = prestep THEN <<start, stop>>
     ELSE NiceFrom((start \div step) * step, -(((-stop) \div step) * step), step, rounds - 1)

\* d3.scaleLinear().domain(d).nice(): the domain is replaced when the loop
\* settles within its ten rounds; a descending domain stays descending
Nice(d) ==
  LET descending == d[2] < d[1]
      settled == IF descending THEN NiceFrom(d[2], d[1], 0, 10)
                 ELSE NiceFrom(d[1], d[2], 0, 10)
  IN IF settled = <<>> THEN d
     ELSE IF descending THEN <<settled[2], settled[1]>>
     ELSE settled

\* position of value v (units) on a scale of domain d and range
\* [chartHeight, 0], in tenths of a unit below the top of the range; the
\* pixel position is this times chartHeight / (d[2] - d[1])
ScalePos(d, v) == d[2] - 10 * v

\* chartHeight in the same measure
RangeHeight(d) == d[2] - d[1]

\* x0(category): index of the band of a category (a band per distinct label)
Band(cd, category) == SetMin({i \in DOMAIN cd : cd[i].category = category})

\* .duration(config.animationEnabled ? d : 0)
TransitionDuration(enabled, d) == IF enabled THEN d ELSE 0

\* variant: the stagger is kept when animation is off
TransitionDelayAlways(enabled, d) == d

\* .delay((d, i) => config.animationEnabled ? ... : 0)
TransitionDelay(enabled, d) == IF enabled THEN d ELSE 0

\* variant: the upper segment starts at the axis origin
StackBaseZero(hasBar1, bar1) == 0

\* yLeft(hasBar1 ? d.bar1 : 0): the value the upper segment of a stack rests on
StackBase(hasBar1, bar1) == IF hasBar1 THEN bar1 ELSE 0

\* !!dimensionField
HasDimension(cfg) == cfg.dimension # ""

\* !!(bar1Field || bar2Field || lineField)
HasMeasure(cfg) ==
  cfg.bar1Measure # "" \/ cfg.bar2Measure # "" \/ cfg.lineMeasure # ""

\* variant: a missing measure is not named
MissingPartsDimensionOnly(cfg) ==
  IF ~HasDimension(cfg) THEN <<"a Category dimension">> ELSE <<>>

\* missingParts of the mapping validation
MissingParts(cfg) ==
  (IF ~HasDimension(cfg) THEN <<"a Category dimension">> ELSE <<>>) \o
  (IF ~HasMeasure(cfg) THEN <<"at least one measure">> ELSE <<>>)

\* parts.join(' and ')
JoinAnd(parts) ==
  IF Len(parts) = 0 THEN ""
  ELSE IF Len(parts) = 1 THEN parts[1]
  ELSE parts[1] \o " and " \o parts[2]

\* ComboChart output with nothing in it
EmptyRender ==
  [placeholder |-> FALSE, texts |-> <<>>, yLeftDomain |-> <<>>, yLeft |-> <<>>,
   yRight |-> <<>>, rects |-> {}, path |-> <<>>, points |-> {}, transitions |-> {}, axes |-> FALSE]

\* rect.bar1 / rect.bar2 of the grouped and stacked branches: final
\* attributes and the transition that leads to them from y = chartHeight,
\* height = 0 (i is the zero-based row index)
BarRects(cd, cfg, yl) ==
  LET hasBar1 == cfg.bar1Measure # ""
      hasBar2 == cfg.bar2Measure # ""
      grouped == cfg.barStyle = "grouped"
      bar1Rect(i) ==
        [cls |-> "bar1", row |-> i, x |-> Band(cd, cd[i].category),
         y |-> ScalePos(yl, cd[i].bar1),
         height |-> RangeHeight(yl) - ScalePos(yl, cd[i].bar1)]
      total(i) == (IF hasBar1 THEN cd[i].bar1 ELSE 0) + (IF hasBar2 THEN cd[i].bar2 ELSE 0)
      bar2Rect(i) ==
        IF grouped
        THEN [cls |-> "bar2", row |-> i, x |-> Band(cd, cd[i].category),
              y |-> ScalePos(yl, cd[i].bar2),
              height |-> RangeHeight(yl) - ScalePos(yl, cd[i].bar2)]
        ELSE [cls |-> "bar2", row |-> i, x |-> Band(cd, cd[i].category),
              y |-> ScalePos(yl, total(i)),
              height |-> ScalePos(yl, StackBase(hasBar1, cd[i].bar1))
                           - ScalePos(yl, total(i))]
  IN IF cfg.barStyle \in {"grouped", "stacked"}
     THEN {bar1Rect(i) : i \in {j \in DOMAIN cd : hasBar1}} \cup
          {bar2Rect(i) : i \in {j \in DOMAIN cd : hasBar2}}
     ELSE {}

\* the transitions started by one render: element, row, duration, delay
ChartTransitions(cd, cfg) ==
  LET on == cfg.animationEnabled
      dur == cfg.animationDuration
      grouped == cfg.barStyle = "grouped"
      bars(cls, offset) ==
        {[el |-> cls, row |-> i,
          duration |-> TransitionDuration(on, dur),
          delay |-> IF grouped THEN TransitionDelay(on, (i - 1) * 20 + offset) ELSE 0] :
           i \in DOMAIN cd}
      labels(cls) ==
        {[el |-> cls, row |-> i, duration |-> TransitionDuration(on, dur), delay |-> 0] :
           i \in DOMAIN cd}
      drawn == cfg.barStyle \in {"grouped", "stacked"}
  IN (IF cfg.bar1Measure # "" /\ drawn THEN bars("bar1", 0) ELSE {}) \cup
     (IF cfg.bar2Measure # "" /\ drawn THEN bars("bar2", 50) ELSE {}) \cup
     (IF cfg.bar1Measure # "" /\ grouped THEN labels("bar1-label") ELSE {}) \cup
     (IF cfg.bar2Measure # "" /\ grouped THEN labels("bar2-label") ELSE {}) \cup
     (IF cfg.lineMeasure # "" /\ on
        THEN {[el |-> "line", row |-> 0, duration |-> (dur * 12) \div 10, delay |-> 0]}
        ELSE {}) \cup
     (IF cfg.lineMeasure # ""
        THEN {[el |-> "line-point", row |-> i,
               duration |-> TransitionDuration(on, dur \div 2),
               delay |-> TransitionDelay(on, (dur * 8) \div 10 + (i - 1) * 30)] :
                i \in DOMAIN cd} \cup labels("line-label")
        ELSE {})

\* the render effect with the early return of the component: what is on
\* screen once the effect has run (data labels switched on)
RenderChart(data, cfg) ==
  IF Len(data) = 0
  THEN [EmptyRender EXCEPT !.placeholder = TRUE]
  ELSE IF ~HasDimension(cfg) \/ ~HasMeasure(cfg)
  THEN [EmptyRender EXCEPT
          !.texts = << "Assign " \o JoinAnd(MissingParts(cfg)),
                       "Use the marks card or open Settings to configure" >>]
  ELSE LET cd == ChartData(data, cfg)
           yLeftDomain == YLeftDomain(cd, cfg)
           yl == Nice(yLeftDomain)
           yr == Nice(YRightScaleDomain(cd, cfg))
       IN [placeholder |-> FALSE,
           texts |-> <<>>,
           yLeftDomain |-> yLeftDomain,
           yLeft |-> yl,
           yRight |-> yr,
           rects |-> BarRects(cd, cfg, yl),
           path |-> IF cfg.lineMeasure # ""
                    THEN [i \in DOMAIN cd |->
                            [x |-> Band(cd, cd[i].category), y |-> ScalePos(yr, cd[i].line)]]
                    ELSE <<>>,
           points |-> IF cfg.lineMeasure # ""
                      THEN {[row |-> i, x |-> Band(cd, cd[i].category),
                             y |-> ScalePos(yr, cd[i].line)] : i \in DOMAIN cd}
                      ELSE {},
           transitions |-> ChartTransitions(cd, cfg),
           axes |-> TRUE]

\* the render effect runs for the props ComboChart was given
RenderEffect ==
  /\ chartProps # <<>>
  /\ rendered = <<>>
  /\ rendered' = <<RenderChart(chartProps[1].data, chartProps[1].config)>>
  /\ UNCHANGED <<chartProps, tooltipCall, tooltipContent, resolveCall, resolveResult>>
  /\ UNCHANGED auxVars
  /\ UNCHANGED appVars
  /\ UNCHANGED hostVars
  /\ UNCHANGED dialogVars
  /\ UNCHANGED hookVars

\* the chart alone, given any rows and options
RenderInit ==
  /\ phase = "running"
  /\ config = DefaultConfig
  /\ configCurrent = DefaultConfig
  /\ encodingMap = EmptyMap
  /\ hostSettings = EmptyMap
  /\ saveTimerRef = 0
  /\ timers = {}
  /\ nextTimerId = 1
  /\ cleanupSet = FALSE
  /\ settingsEvent = FALSE
  /\ loadPending = FALSE
  /\ encEvents = 0
  /\ dialogOpen = FALSE
  /\ dialogEnc = EmptyMap
  /\ dialogConfig = DefaultConfig
  /\ localConfig = DefaultConfig
  /\ bannerReset = FALSE
  /\ writeTick = FALSE
  /\ dialogInputs = 0
  /\ hasLoadedInitialSettings = TRUE
  /\ initialLoads = 1
  /\ dataListener = TRUE
  /\ loading = FALSE
  /\ error = "null"
  /\ lastLoad = "ok"
  /\ chartProps \in {<<[data |-> d, config |-> c]>> : d \in ChartDataSets, c \in ChartConfigs}
  /\ rendered = <<>>
  /\ tooltipCall = <<>>
  /\ tooltipContent = <<>>
  /\ resolveCall = <<>>
  /\ resolveResult = <<>>
  /\ AuxIdle

RenderNext == RenderEffect

RenderSpec == RenderInit /\ [][RenderNext]_vars

\* ---------------------------------------------------------- display names
\* A field name is a sequence of characters, so that wrappers, substrings and
\* suffixes are matched as the string operations of the code match them.
LowerLetters == <<"a", "b", "c", "d", "e", "f", "g", "h", "i", "j", "k", "l", "m",
                  "n", "o", "p", "q", "r", "s", "t", "u", "v", "w", "x", "y", "z">>

UpperLetters == <<"A", "B", "C", "D", "E", "F", "G", "H", "I", "J", "K", "L", "M",
                  "N", "O", "P", "Q", "R", "S", "T", "U", "V", "W", "X", "Y", "Z">>

\* the regular expression carries the i flag
UpperCase(c) ==
  IF \E i \in 1..26 : LowerLetters[i] = c
  THEN UpperLetters[CHOOSE i \in 1..26 : LowerLetters[i] = c]
  ELSE c

\* the string a sequence of characters spells
RECURSIVE Str(_)
Str(chars) == IF chars = <<>> THEN "" ELSE Head(chars) \o Str(Tail(chars))

\* the aggregation wrappers the regular expression lists
AggWrappers ==
  { <<"S", "U", "M">>, <<"A", "V", "G">>, <<"M", "I", "N">>, <<"M", "A", "X">>,
    <<"C", "O", "U", "N", "T">>, <<"A", "G", "G">>, <<"M", "E", "D", "I", "A", "N">>,
    <<"S", "T", "D", "E", "V">>, <<"V", "A", "R">>, <<"A", "T", "T", "R">> }

\* name matches ^W\((.+)\)$ for the wrapper w
WrappedBy(name, w) ==
  /\ Len(name) >= Len(w) + 3
  /\ \A i \in 1..Len(w) : UpperCase(name[i]) = w[i]
  /\ name[Len(w) + 1] = "("
  /\ name[Len(name)] = ")"

RECURSIVE TrimLeft(_)
TrimLeft(chars) ==
  IF chars # <<>> /\ Head(chars) = " " THEN TrimLeft(Tail(chars)) ELSE chars

RECURSIVE TrimRight(_)
TrimRight(chars) ==
  IF chars # <<>> /\ chars[Len(chars)] = " "
  THEN TrimRight(SubSeq(chars, 1, Len(chars) - 1))
  ELSE chars

Trim(chars) == TrimRight(TrimLeft(chars))

\* SUM(Sales) -> Sales
CleanFieldName(name) ==
  IF name = <<>> THEN <<>>
  ELSE IF \E w \in AggWrappers : WrappedBy(name, w)
       THEN LET w == CHOOSE x \in AggWrappers : WrappedBy(name, x)
            IN  Trim(SubSeq(name, Len(w) + 2, Len(name) - 1))
       ELSE Trim(name)

\* the field names of the current data mapping
GetFieldNames(cfg) ==
  [dimension |-> cfg.dimension, bar1 |-> cfg.bar1Measure,
   bar2 |-> cfg.bar2Measure, line |-> cfg.lineMeasure]

\* variant: the axis title stands in for every role
GetDisplayNameAxisTitleAnyRole(type, fieldNames, cfg) ==
  LET customLabel == CASE type = "bar1" -> cfg.legendBar1Label
                       [] type = "bar2" -> cfg.legendBar2Label
                       [] type = "line" -> cfg.legendLineLabel
                       [] OTHER -> cfg.legendDimensionLabel
  IN  IF customLabel # "" THEN customLabel
      ELSE IF cfg.xAxisTitle # "" THEN cfg.xAxisTitle
      ELSE IF fieldNames[type] = <<>> THEN (IF type = "dimension" THEN "Category" ELSE "Unknown")
      ELSE Str(CleanFieldName(fieldNames[type]))

\* custom label, then the axis title (dimension only), then the placeholder of
\* an unmapped role, then the cleaned field name
GetDisplayName(type, fieldNames, cfg) ==
  LET fieldName == fieldNames[type]
      customLabel == CASE type = "bar1" -> cfg.legendBar1Label
                       [] type = "bar2" -> cfg.legendBar2Label
                       [] type = "line" -> cfg.legendLineLabel
                       [] OTHER -> cfg.legendDimensionLabel
  IN  IF customLabel # "" THEN customLabel
      ELSE IF type = "dimension" /\ cfg.xAxisTitle # "" THEN cfg.xAxisTitle
      ELSE IF fieldName = <<>> THEN (IF type = "dimension" THEN "Category" ELSE "Unknown")
      ELSE Str(CleanFieldName(fieldName))

\* ---------------------------------------------------------------- tooltip
\* Amounts are held in hundredths (123450 is 1234.5) and are not negative.
Pad(n, width) ==
  IF width = 3 /\ n < 10 THEN "00" \o ToString(n)
  ELSE IF (width = 3 /\ n < 100) \/ (width = 2 /\ n < 10) THEN "0" \o ToString(n)
  ELSE ToString(n)

\* the integer part with a comma between groups of three digits
RECURSIVE GroupThousands(_)
GroupThousands(n) ==
  IF n < 1000 THEN ToString(n)
  ELSE GroupThousands(n \div 1000) \o "," \o Pad(n % 1000, 3)

\* d3.format(',.2f')
Format2f(h) == GroupThousands(h \div 100) \o "." \o Pad(h % 100, 2)

\* the tokens in the order in which the replacements are chained
TokenOrder ==
  <<"{dimension_label}", "{dimension}", "{bar1_label}", "{bar1_value}", "{bar1}",
    "{bar2_label}", "{bar2_value}", "{bar2}", "{line_label}", "{line_value}",
    "{line}", "{measure}", "{value}">>

\* what the k-th replacement puts in place of its token
Replacement(k, call) ==
  LET cfg == call.config
      names == GetFieldNames(cfg)
      label(t) == GetDisplayName(t, names, cfg)
      val(t) == Format2f(call.point[t])
  IN  CASE k = 1 -> label("dimension")
        [] k = 2 -> call.point.category
        [] k = 3 -> label("bar1")
        [] k = 4 -> val("bar1")
        [] k = 5 -> label("bar1") \o " : " \o val("bar1")
        [] k = 6 -> label("bar2")
        [] k = 7 -> val("bar2")
        [] k = 8 -> label("bar2") \o " : " \o val("bar2")
        [] k = 9 -> label("line")
        [] k = 10 -> val("line")
        [] k = 11 -> label("line") \o " : " \o val("line")
        [] k = 12 -> label(call.type)
        [] OTHER -> Format2f(call.point[call.type])

\* a template line is a sequence of pieces, each a token or literal text;
\* replace(/token/g, text) rewrites every piece that is the token
ReplaceAll(line, token, text) ==
  [i \in 1..Len(line) |-> IF line[i] = token THEN text ELSE line[i]]

\* the replacements k, k+1, ... applied one after the other
RECURSIVE ReplaceFrom(_, _, _)
ReplaceFrom(line, k, call) ==
  IF k > Len(TokenOrder) THEN line
  ELSE ReplaceFrom(ReplaceAll(line, TokenOrder[k], Replacement(k, call)), k + 1, call)

\* the text of a line once every piece is text
RECURSIVE Concat(_)
Concat(pieces) == IF pieces = <<>> THEN "" ELSE Head(pieces) \o Concat(Tail(pieces))

\* pieces that consist of white space only
WhiteSpace == {"", " "}

\* variant: no line is dropped
IsBlankNever(pieces) == FALSE

\* rendered.trim() is empty
IsBlank(pieces) == \A i \in 1..Len(pieces) : pieces[i] \in WhiteSpace

\* the rows of the lines from the i-th on
RECURSIVE TemplateRows(_, _, _)
TemplateRows(lines, i, call) ==
  IF i > Len(lines) THEN <<>>
  ELSE LET pieces == ReplaceFrom(lines[i], 1, call)
           rest == TemplateRows(lines, i + 1, call)
       IN  IF IsBlank(pieces) THEN rest
           ELSE <<[class |-> "tooltip-row", text |-> Concat(pieces)]>> \o rest

\* the rows of the structured mode
DefaultRows(call) ==
  LET cfg == call.config
      displayName == GetDisplayName(call.type, GetFieldNames(cfg), cfg)
      value == Format2f(call.point[call.type])
  IN  (IF cfg.tooltipShowDimension
       THEN <<[class |-> "tooltip-title", text |-> call.point.category]>>
       ELSE <<>>)
      \o (IF cfg.tooltipShowMeasureName /\ cfg.tooltipShowValue
          THEN <<[class |-> "tooltip-row", text |-> displayName \o " : " \o value]>>
          ELSE IF cfg.tooltipShowMeasureName
          THEN <<[class |-> "tooltip-row", text |-> displayName]>>
          ELSE IF cfg.tooltipShowValue
          THEN <<[class |-> "tooltip-row", text |-> value]>>
          ELSE <<>>)

\* the content showTooltip gives the tooltip; an absent template is <<>>
TooltipRows(call) ==
  IF call.config.tooltipUseCustom /\ call.config.tooltipTemplate # <<>>
  THEN TemplateRows(call.config.tooltipTemplate, 1, call)
  ELSE DefaultRows(call)

\* field names, labels, templates and points a hover is checked with
RegionField == <<"R", "e", "g", "i", "o", "n">>

SalesField == <<"S", "a", "l", "e", "s">>

SumSalesField == <<"s", "u", "m", "(", "S", "a", "l", "e", "s", ")">>

AvgProfitField == <<"A", "V", "G", "(", "P", "r", "o", "f", "i", "t", ")">>

LabelTemplate ==
  << <<"{dimension_label}", " : ", "{dimension}">>,
     <<"{bar1_label}", " : ", "{bar1_value}">> >>

GapTemplate ==
  << <<"{measure}", " ", "{value}">>, <<" ">>, <<"{bar1}">>, <<>>,
     <<"{line_label}", " = ", "{line_value}">>, <<"{bar2}">> >>

TooltipTemplates == {<<>>, LabelTemplate, GapTemplate}

TooltipConfigs ==
  [tooltipUseCustom : BOOLEAN, tooltipTemplate : TooltipTemplates,
   tooltipShowDimension : BOOLEAN, tooltipShowMeasureName : BOOLEAN,
   tooltipShowValue : BOOLEAN,
   legendDimensionLabel : {"", "Area"}, legendBar1Label : {"", "Revenue"},
   legendBar2Label : {""}, legendLineLabel : {""},
   xAxisTitle : {"", "Regions"},
   dimension : {<<>>, RegionField},
   bar1Measure : {<<>>, SalesField, SumSalesField},
   bar2Measure : {<<>>},
   lineMeasure : {AvgProfitField}]

TooltipPoints ==
  [category : {"West", "East"}, bar1 : {0, 123450, 100000005}, bar2 : {0}, line : {995}]

\* a hover over a mark that was drawn: the series is mapped, and an unmapped
\* series has the value 0 in the chart data
TooltipCalls ==
  { c \in [config : TooltipConfigs, point : TooltipPoints, type : {"bar1", "line"}] :
      /\ c.config.bar1Measure = <<>> => (c.point.bar1 = 0 /\ c.type # "bar1") }

\* the pointer enters a mark
ShowTooltip ==
  /\ tooltipCall # <<>>
  /\ tooltipContent = <<>>
  /\ tooltipContent' = <<TooltipRows(tooltipCall[1])>>
  /\ UNCHANGED <<chartProps, rendered, tooltipCall, resolveCall, resolveResult>>
  /\ UNCHANGED auxVars
  /\ UNCHANGED appVars
  /\ UNCHANGED hostVars
  /\ UNCHANGED dialogVars
  /\ UNCHANGED hookVars

\* the widget is running and idle
AppIdle ==
  /\ phase = "running"
  /\ config = DefaultConfig
  /\ configCurrent = DefaultConfig
  /\ encodingMap = EmptyMap
  /\ hostSettings = EmptyMap
  /\ saveTimerRef = 0
  /\ timers = {}
  /\ nextTimerId = 1
  /\ cleanupSet = FALSE
  /\ settingsEvent = FALSE
  /\ loadPending = FALSE
  /\ encEvents = 0
  /\ dialogOpen = FALSE
  /\ dialogEnc = EmptyMap
  /\ dialogConfig = DefaultConfig
  /\ localConfig = DefaultConfig
  /\ bannerReset = FALSE
  /\ writeTick = FALSE
  /\ dialogInputs = 0
  /\ hasLoadedInitialSettings = TRUE
  /\ initialLoads = 1
  /\ dataListener = TRUE
  /\ loading = FALSE
  /\ error = "null"
  /\ lastLoad = "ok"

\* the tooltip alone, given any hover
TooltipInit ==
  /\ AppIdle
  /\ chartProps = <<>>
  /\ rendered = <<>>
  /\ tooltipCall \in {<<c>> : c \in TooltipCalls}
  /\ tooltipContent = <<>>
  /\ resolveCall = <<>>
  /\ resolveResult = <<>>
  /\ AuxIdle

TooltipNext == ShowTooltip

TooltipSpec == TooltipInit /\ [][TooltipNext]_vars

\* -------------------------------------------------------- field resolution
MaxCols == 3

\* hay contains needle as a substring
Includes(hay, needle) ==
  \E i \in 1..(Len(hay) - Len(needle) + 1) : SubSeq(hay, i, i + Len(needle) - 1) = needle

\* hay ends with needle
EndsWith(hay, needle) ==
  /\ Len(hay) >= Len(needle)
  /\ SubSeq(hay, Len(hay) - Len(needle) + 1, Len(hay)) = needle

\* the indices of the columns that contain (name)
WrappedMatches(baseFieldName, cols) ==
  {i \in 1..Len(cols) : Includes(cols[i], <<"(">> \o baseFieldName \o <<")">>)}

\* the indices of the columns that end with the name
SuffixMatches(baseFieldName, cols) ==
  {i \in 1..Len(cols) : EndsWith(cols[i], baseFieldName)}

\* cols.find: the first of the matching columns
FirstOf(matches, cols) == cols[CHOOSE i \in matches : \A j \in matches : i <= j]

\* variant: the suffix is tried before the wrapper
ResolveFieldNameSuffixFirst(baseFieldName, cols) ==
  IF \E i \in 1..Len(cols) : cols[i] = baseFieldName THEN baseFieldName
  ELSE IF SuffixMatches(baseFieldName, cols) # {}
       THEN FirstOf(SuffixMatches(baseFieldName, cols), cols)
  ELSE IF WrappedMatches(baseFieldName, cols) # {}
       THEN FirstOf(WrappedMatches(baseFieldName, cols), cols)
  ELSE baseFieldName

\* the data column an encoding's base field name stands for
ResolveFieldName(baseFieldName, cols) ==
  IF \E i \in 1..Len(cols) : cols[i] = baseFieldName THEN baseFieldName
  ELSE IF WrappedMatches(baseFieldName, cols) # {}
       THEN FirstOf(WrappedMatches(baseFieldName, cols), cols)
  ELSE IF SuffixMatches(baseFieldName, cols) # {}
       THEN FirstOf(SuffixMatches(baseFieldName, cols), cols)
  ELSE baseFieldName

\* base names and column names a resolution is checked with
ProfitField == <<"P", "r", "o", "f", "i", "t">>

SumSalesColumn == <<"S", "U", "M", "(", "S", "a", "l", "e", "s", ")">>

NetSalesColumn == <<"N", "e", "t", " ", "S", "a", "l", "e", "s">>

SalesRankColumn == <<"S", "a", "l", "e", "s", " ", "R", "a", "n", "k">>

BaseFieldNames == {RegionField, SalesField, ProfitField}

ColumnNames ==
  {RegionField, SalesField, SumSalesColumn, NetSalesColumn, SalesRankColumn, AvgProfitField}

ColumnLists == UNION {[1..n -> ColumnNames] : n \in 0..MaxCols}

\* loadData resolves one entry of the encoding map against the columns
ResolveEncoding ==
  /\ resolveCall # <<>>
  /\ resolveResult = <<>>
  /\ resolveResult' = <<ResolveFieldName(resolveCall[1].baseFieldName, resolveCall[1].cols)>>
  /\ UNCHANGED <<chartProps, rendered, tooltipCall, tooltipContent, resolveCall>>
  /\ UNCHANGED auxVars
  /\ UNCHANGED appVars
  /\ UNCHANGED hostVars
  /\ UNCHANGED dialogVars
  /\ UNCHANGED hookVars

\* a load is under way and has fetched the encodings and the columns
ResolveInit ==
  /\ phase = "running"
  /\ config = DefaultConfig
  /\ configCurrent = DefaultConfig
  /\ encodingMap = EmptyMap
  /\ hostSettings = EmptyMap
  /\ saveTimerRef = 0
  /\ timers = {}
  /\ nextTimerId = 1
  /\ cleanupSet = FALSE
  /\ settingsEvent = FALSE
  /\ loadPending = TRUE
  /\ encEvents = 0
  /\ dialogOpen = FALSE
  /\ dialogEnc = EmptyMap
  /\ dialogConfig = DefaultConfig
  /\ localConfig = DefaultConfig
  /\ bannerReset = FALSE
  /\ writeTick = FALSE
  /\ dialogInputs = 0
  /\ hasLoadedInitialSettings = TRUE
  /\ initialLoads = 1
  /\ dataListener = TRUE
  /\ loading = TRUE
  /\ error = "null"
  /\ lastLoad = "none"
  /\ chartProps = <<>>
  /\ rendered = <<>>
  /\ tooltipCall = <<>>
  /\ tooltipContent = <<>>
  /\ resolveCall \in {<<[baseFieldName |-> b, cols |-> c]>> : b \in BaseFieldNames, c \in ColumnLists}
  /\ resolveResult = <<>>
  /\ AuxIdle

ResolveNext == ResolveEncoding

ResolveSpec == ResolveInit /\ [][ResolveNext]_vars

\* --------------------------------------------------------------- formatters
\* A call of a utility function on its own: the widget is running and idle
FnInit(calls) ==
  /\ AppIdle
  /\ chartProps = <<>>
  /\ rendered = <<>>
  /\ tooltipCall = <<>>
  /\ tooltipContent = <<>>
  /\ resolveCall = <<>>
  /\ resolveResult = <<>>
  /\ fnCall \in {<<c>> : c \in calls}
  /\ fnResult = <<>>
  /\ SurfaceIdle
  /\ LoadIdle

\* the utility function returns: nothing else changes
FnReturns(value) ==
  /\ fnCall # <<>>
  /\ fnResult = <<>>
  /\ fnResult' = <<value>>
  /\ UNCHANGED <<chartProps, rendered, tooltipCall, tooltipContent, resolveCall,
                 resolveResult, fnCall>>
  /\ UNCHANGED <<surfaceVars, loadVars>>
  /\ UNCHANGED appVars
  /\ UNCHANGED hostVars
  /\ UNCHANGED dialogVars
  /\ UNCHANGED hookVars

DigitChars == <<"0", "1", "2", "3", "4", "5", "6", "7", "8", "9">>

IsDigit(c) == \E i \in 1..10 : DigitChars[i] = c

IsLetter(c) == \E i \in 1..26 : LowerLetters[i] = c \/ UpperLetters[i] = c

\* the character at position p, "" past the end
CharAt(chars, p) == IF p >= 1 /\ p <= Len(chars) THEN chars[p] ELSE ""

\* the first position at or after p that holds no digit
RECURSIVE SkipDigits(_, _)
SkipDigits(chars, p) ==
  IF IsDigit(CharAt(chars, p)) THEN SkipDigits(chars, p + 1) ELSE p

\* the position after an optional character of set S at position p
SkipOne(chars, p, S) == IF CharAt(chars, p) \in S THEN p + 1 ELSE p

\* the position after an optional [[fill]align] at the start
SkipAlign(chars) ==
  IF CharAt(chars, 2) \in {"<", ">", "=", "^"} THEN 3
  ELSE SkipOne(chars, 1, {"<", ">", "=", "^"})

\* the position after an optional .precision at position p
SkipPrecision(chars, p) ==
  IF CharAt(chars, p) = "." /\ IsDigit(CharAt(chars, p + 1))
  THEN SkipDigits(chars, p + 1) ELSE p

\* the position after an optional type at position p
SkipType(chars, p) ==
  IF IsLetter(CharAt(chars, p)) \/ CharAt(chars, p) = "%" THEN p + 1 ELSE p

\* the groups of a specifier whose width ends at afterWidth
PartsFromWidth(chars, afterWidth) ==
  LET afterComma == SkipOne(chars, afterWidth, {","})
      afterPrecision == SkipPrecision(chars, afterComma)
      afterTilde == SkipOne(chars, afterPrecision, {"~"})
      afterType == SkipType(chars, afterTilde)
  IN  [plain |-> afterWidth = 1 /\ afterTilde = afterPrecision,
       comma |-> afterComma > afterWidth,
       precision |-> SubSeq(chars, afterComma + 1, afterPrecision - 1),
       type |-> IF afterType > afterTilde THEN CharAt(chars, afterTilde) ELSE "",
       end |-> afterType]

\* positions reached by the groups of the d3 format specifier expression
\* [[fill]align][sign][symbol][0][width][,][.precision][~][type]
SpecifierParts(chars) ==
  PartsFromWidth(chars,
    SkipDigits(chars,
      SkipOne(chars,
        SkipOne(chars,
          SkipOne(chars, SkipAlign(chars), {"+", "-", "(", " "}),
          {"$", "#"}),
        {"0"})))

\* d3.format(specifier) throws "invalid format" when the expression does not
\* match the whole specifier
D3FormatThrows(chars) == SpecifierParts(chars).end # Len(chars) + 1

RECURSIVE Pow10(_)
Pow10(k) == IF k = 0 THEN 1 ELSE 10 * Pow10(k - 1)

\* the number a sequence of digits spells
RECURSIVE DigitsValue(_)
DigitsValue(chars) ==
  IF chars = <<>> THEN 0
  ELSE 10 * DigitsValue(SubSeq(chars, 1, Len(chars) - 1))
       + (CHOOSE i \in 1..10 : DigitChars[i] = chars[Len(chars)]) - 1

\* the digits of a natural number
RECURSIVE DigitsOf(_)
DigitsOf(n) ==
  IF n < 10 THEN <<DigitChars[n + 1]>> ELSE DigitsOf(n \div 10) \o <<DigitChars[(n % 10) + 1]>>

\* n written with at least width digits
RECURSIVE ZeroPad(_, _)
ZeroPad(n, width) ==
  IF width <= 1 THEN ToString(n)
  ELSE IF n < Pow10(width - 1) THEN "0" \o ZeroPad(n, width - 1)
  ELSE ToString(n)

\* the magnitude num/den with p decimals, rounded; num >= 0
FixedText(num, den, p, comma) ==
  LET whole == num \div den
      frac == IF den = 1 THEN 0 ELSE ((num % den) * Pow10(p) + den \div 2) \div den
      carry == frac = Pow10(p) /\ den # 1
      int == IF carry THEN whole + 1 ELSE whole
      intText == IF comma THEN GroupThousands(int) ELSE ToString(int)
  IN  IF p = 0 THEN intText
      ELSE intText \o "." \o ZeroPad(IF carry THEN 0 ELSE frac, p)

\* the decimal exponent of num/den, num > 0
RECURSIVE ExponentOf(_, _)
ExponentOf(num, den) ==
  IF num >= 10 * den THEN ExponentOf(num, 10 * den) + 1
  ELSE IF num < den THEN ExponentOf(10 * num, den) - 1
  ELSE 0

\* Number.prototype.toExponential(p) of num/den, num >= 0
ExponentialText(num, den, p) ==
  IF num = 0
  THEN (IF p = 0 THEN "0" ELSE "0." \o ZeroPad(0, p)) \o "e+0"
  ELSE LET e == ExponentOf(num, den)
           up == IF p > e THEN Pow10(p - e) ELSE 1
           down == IF e > p THEN den * Pow10(e - p) ELSE den
           m0 == IF down = 1 THEN num * up ELSE (num * up + down \div 2) \div down
           over == m0 = Pow10(p + 1)
           m == IF over THEN Pow10(p) ELSE m0
           ex == IF over THEN e + 1 ELSE e
       IN  ToString(m \div Pow10(p))
           \o (IF p = 0 THEN "" ELSE "." \o ZeroPad(m % Pow10(p), p))
           \o "e" \o (IF ex < 0 THEN "-" \o ToString(0 - ex) ELSE "+" \o ToString(ex))

\* what the function d3.format(specifier) returns for the magnitude num/den,
\* for a specifier made of [,].precision and one of the types f, e, %
D3FormatText(chars, num, den) ==
  LET parts == SpecifierParts(chars)
      p == DigitsValue(parts.precision)
  IN  CASE parts.plain /\ parts.type = "f" -> FixedText(num, den, p, parts.comma)
        [] parts.plain /\ parts.type = "e" -> ExponentialText(num, den, p)
        [] parts.plain /\ parts.type = "%" -> FixedText(100 * num, den, p, parts.comma) \o "%"

Abs(v) == IF v < 0 THEN 0 - v ELSE v

UNIT_CONFIG ==
  [none |-> [divisor |-> 1, unitSuffix |-> ""],
   thousands |-> [divisor |-> 1000, unitSuffix |-> "K"],
   millions |-> [divisor |-> 1000000, unitSuffix |-> "M"],
   billions |-> [divisor |-> 1000000000, unitSuffix |-> "B"]]

\* the unit a value is displayed in
GetUnit(displayUnits, v) ==
  IF displayUnits # "auto"
  THEN (IF displayUnits \in DOMAIN UNIT_CONFIG THEN UNIT_CONFIG[displayUnits]
        ELSE UNIT_CONFIG.none)
  ELSE IF Abs(v) >= 1000000000 THEN UNIT_CONFIG.billions
  ELSE IF Abs(v) >= 1000000 THEN UNIT_CONFIG.millions
  ELSE IF Abs(v) >= 1000 THEN UNIT_CONFIG.thousands
  ELSE UNIT_CONFIG.none

\* sign or parentheses around the text of a magnitude
Signed(v, negativeStyle, text) ==
  IF v < 0 /\ negativeStyle = "parens" THEN "(" \o text \o ")"
  ELSE (IF v < 0 THEN "-" ELSE "") \o text

\* the tokens of a Tableau/Excel-style date pattern and their d3 directives,
\* in the order in which they are tried
DateTokens ==
  << <<<<"M", "M", "M", "M">>, <<"%", "B">>>>,
     <<<<"M", "M", "M">>, <<"%", "b">>>>,
     <<<<"M", "M">>, <<"%", "m">>>>,
     <<<<"M">>, <<"%", "-", "m">>>>,
     <<<<"d", "d", "d", "d">>, <<"%", "A">>>>,
     <<<<"d", "d", "d">>, <<"%", "a">>>>,
     <<<<"d", "d">>, <<"%", "d">>>>,
     <<<<"d">>, <<"%", "-", "d">>>>,
     <<<<"Y", "Y", "Y", "Y">>, <<"%", "Y">>>>,
     <<<<"y", "y", "y", "y">>, <<"%", "Y">>>>,
     <<<<"Y", "Y">>, <<"%", "y">>>>,
     <<<<"y", "y">>, <<"%", "y">>>>,
     <<<<"H", "H">>, <<"%", "H">>>>,
     <<<<"h", "h">>, <<"%", "I">>>>,
     <<<<"m", "m">>, <<"%", "M">>>>,
     <<<<"s", "s">>, <<"%", "S">>>>,
     <<<<"t", "t">>, <<"%", "p">>>>,
     <<<<"a">>, <<"%", "p">>>> >>

\* the token found at position i of the pattern
TokenAt(fmt, i, k) ==
  /\ i + Len(DateTokens[k][1]) - 1 <= Len(fmt)
  /\ SubSeq(fmt, i, i + Len(DateTokens[k][1]) - 1) = DateTokens[k][1]

RECURSIVE TranslateFrom(_, _)
TranslateFrom(fmt, i) ==
  IF i > Len(fmt) THEN <<>>
  ELSE IF \E k \in 1..Len(DateTokens) : TokenAt(fmt, i, k)
       THEN LET k == CHOOSE x \in 1..Len(DateTokens) :
                       TokenAt(fmt, i, x) /\ \A y \in 1..(x - 1) : ~TokenAt(fmt, i, y)
            IN  DateTokens[k][2] \o TranslateFrom(fmt, i + Len(DateTokens[k][1]))
       ELSE <<fmt[i]>> \o TranslateFrom(fmt, i + 1)

toD3DateFormat(fmt) ==
  IF fmt = <<>> \/ \E i \in 1..Len(fmt) : fmt[i] = "%" THEN fmt ELSE TranslateFrom(fmt, 1)

\* The text of a date is written as the pattern it is produced with; every
\* finite number the formatter is applied to here is a valid time value.
DateText(dateFormat, customDateFormat) ==
  CASE dateFormat = "longDate" -> "Intl weekday, month day, year"
    [] dateFormat = "shortDate" -> "%-m/%-d/%Y"
    [] dateFormat = "ddMMyyyy" -> "%d/%m/%Y"
    [] dateFormat = "isoDate" -> "%Y-%m-%d"
    [] dateFormat = "monthYear" -> "%B %Y"
    [] dateFormat = "abbrevDate" -> "%b %-d, %Y"
    [] dateFormat = "yearQuarter" -> "year Qq"
    [] dateFormat = "yearWeek" -> "year Www"
    [] dateFormat = "custom" ->
         (IF toD3DateFormat(customDateFormat) = <<>> THEN "%Y-%m-%d"
          ELSE Str(toD3DateFormat(customDateFormat)))
    [] OTHER -> "%-m/%-d/%Y"

buildCompactFormatter(opts, v) ==
  LET unit == GetUnit("auto", v)
      spec == (IF unit.unitSuffix # "" THEN <<>> ELSE <<",">>)
              \o <<".">> \o DigitsOf(opts.decimals) \o <<"f">>
      formatted == D3FormatText(spec, Abs(v), unit.divisor)
  IN  Signed(v, opts.negativeStyle,
             opts.prefix \o formatted \o unit.unitSuffix \o opts.suffix)

\* the specifier of the four numeric formats
CoreSpecifier(opts) ==
  CASE opts.format \in {"number", "currency"} ->
         (IF opts.thousandsSep THEN <<",">> ELSE <<>>)
         \o <<".">> \o DigitsOf(opts.decimals) \o <<"f">>
    [] opts.format = "scientific" -> <<".">> \o DigitsOf(opts.decimals) \o <<"e">>
    [] opts.format = "percent" -> <<".">> \o DigitsOf(opts.decimals) \o <<"%">>

\* variant: the failure of d3.format reaches the caller
CustomFormatterUncaught(opts) ==
  IF D3FormatThrows(opts.customFormat) THEN [kind |-> "throw", body |-> "none"]
  ELSE [kind |-> "function", body |-> "custom"]

\* try { d3.format(customFormat) ... } catch { plain coercion }
CustomFormatter(opts) ==
  IF D3FormatThrows(opts.customFormat) THEN [kind |-> "function", body |-> "coerce"]
  ELSE [kind |-> "function", body |-> "custom"]

\* what getFormatter returns: null, one of its closures, or an exception
getFormatter(opts) ==
  IF opts.format = "" \/ opts.format = "auto" THEN [kind |-> "null", body |-> "none"]
  ELSE IF opts.format = "date" THEN [kind |-> "function", body |-> "date"]
  ELSE IF opts.format = "compact" THEN [kind |-> "function", body |-> "compact"]
  ELSE IF opts.format = "custom" /\ opts.customFormat # <<>> THEN CustomFormatter(opts)
  ELSE IF opts.format \in {"number", "currency", "scientific", "percent"}
       THEN (IF D3FormatThrows(CoreSpecifier(opts)) THEN [kind |-> "throw", body |-> "none"]
             ELSE [kind |-> "function", body |-> "core"])
  ELSE [kind |-> "null", body |-> "none"]

\* the returned closure applied to v
Invoke(f, opts, v) ==
  CASE f.body = "date" -> DateText(opts.dateFormat, opts.customDateFormat)
    [] f.body = "compact" -> buildCompactFormatter(opts, v)
    [] f.body = "custom" ->
         Signed(v, opts.negativeStyle,
                opts.prefix \o D3FormatText(opts.customFormat, Abs(v), 1) \o opts.suffix)
    [] f.body = "coerce" -> opts.prefix \o ToString(v) \o opts.suffix
    [] f.body = "core" ->
         LET unit == GetUnit(opts.displayUnits, v)
             den == IF opts.format = "percent" THEN 1 ELSE unit.divisor
             formatted == D3FormatText(CoreSpecifier(opts), Abs(v), den)
             unitSuf == IF opts.format = "percent" THEN "" ELSE unit.unitSuffix
             currBefore == IF opts.format = "currency" /\ opts.currencyPosition = "prefix"
                           THEN opts.currencySymbol ELSE ""
             currAfter == IF opts.format = "currency" /\ opts.currencyPosition = "suffix"
                          THEN opts.currencySymbol ELSE ""
         IN  Signed(v, opts.negativeStyle,
                    opts.prefix \o currBefore \o formatted \o unitSuf \o currAfter
                    \o opts.suffix)

\* format options and values a formatter is checked with
FormatDecimals == {0, 2}

CustomFormats ==
  { <<>>, <<",", ".", "2", "f">>, <<".", "1", "e">>, <<".", "0", "%">>,
    <<"a", "b", "c">>, <<",", ".", "2", "f", "f">>, <<"+", "0", "8", ".", "f">> }

CustomDateFormats == {<<>>, <<"Y", "Y", "Y", "Y", "-", "M", "M", "-", "d", "d">>,
                      <<"%", "b", " ", "%", "Y">>, <<"M", "M", "M", " ", "d">>}

FormatNames == {"", "auto", "number", "currency", "scientific", "percent",
                "custom", "date", "compact"}

\* the options of one format: an option the format does not read is left at
\* its default
FormatOptsOf(format) ==
  [format : {format},
   decimals : FormatDecimals,
   currencySymbol : {"$"},
   currencyPosition : IF format = "currency" THEN {"prefix", "suffix"}
                      ELSE {"prefix"},
   negativeStyle : {"minus", "parens"},
   displayUnits : IF format \in {"number", "currency", "scientific"}
                  THEN {"none", "thousands", "millions", "auto"} ELSE {"none"},
   prefix : {"", "~"}, suffix : {""},
   thousandsSep : IF format \in {"number", "currency"} THEN BOOLEAN ELSE {TRUE},
   customFormat : IF format = "custom" THEN CustomFormats ELSE {<<>>},
   dateFormat : IF format = "date" THEN {"shortDate", "yearQuarter", "custom"}
                ELSE {"shortDate"},
   customDateFormat : IF format = "date" THEN CustomDateFormats ELSE {<<>>}]

FormatOpts ==
  UNION {{o \in FormatOptsOf(format) :
            o.dateFormat # "custom" => o.customDateFormat = <<>>} :
         format \in FormatNames}

FormatValues == {0 - 2500000, 0 - 1234, 0, 7, 1500, 999999}

\* one call for each combination of options and value
FormatCalls == [opts : FormatOpts, value : FormatValues]

\* getFormatter is called and the formatter it returns is applied to a value
FormatValue ==
  LET opts == fnCall[1].opts
      f == getFormatter(opts)
  IN  FnReturns([returned |-> f,
                 output |-> IF f.kind = "function"
                            THEN <<Invoke(f, opts, fnCall[1].value)>> ELSE <<>>])

FormatInit == FnInit(FormatCalls)

FormatNext == FormatValue

FormatSpec == FormatInit /\ [][FormatNext]_vars

\* ------------------------------------------------- display names on their own
DisplayRoles == {"dimension", "bar1", "bar2", "line"}

DisplayFieldNames ==
  [dimension : {<<>>, RegionField}, bar1 : {<<>>, SalesField, SumSalesField},
   bar2 : {<<>>}, line : {AvgProfitField}]

DisplayConfigs ==
  [legendDimensionLabel : {"", "Area"}, legendBar1Label : {"", "Revenue"},
   legendBar2Label : {""}, legendLineLabel : {"", "Trend"},
   xAxisTitle : {"", "Regions"}]

DisplayNameCalls ==
  [type : DisplayRoles, fieldNames : DisplayFieldNames, config : DisplayConfigs]

\* getDisplayName is called
ResolveDisplayName ==
  FnReturns(GetDisplayName(fnCall[1].type, fnCall[1].fieldNames, fnCall[1].config))

DisplayNameInit == FnInit(DisplayNameCalls)

DisplayNameNext == ResolveDisplayName

DisplayNameSpec == DisplayNameInit /\ [][DisplayNameNext]_vars

\* ------------------------------------------------------------- the surface
\* Successive runs of the render effect on the svg node, with the transitions
\* they start ending at any later moment.
MaxRenders == 2

LineStyles == {"solid", "dashed", "dotted"}

\* rows and options the redrawn chart is given (the options of ChartConfigs
\* and the line style)
SurfaceData ==
  { <<>>,
    <<[Region |-> "East", Sales |-> 10, Profit |-> 10]>>,
    <<[Region |-> "East", Sales |-> 10, Profit |-> 10],
      [Region |-> "West", Sales |-> 20, Profit |-> 30]>> }

SurfaceConfigs ==
  [dimension : {"Region"}, bar1Measure : {"", "Sales"}, bar2Measure : {""},
   lineMeasure : {"", "Sales"}, barStyle : {"grouped"}, animationEnabled : BOOLEAN,
   animationDuration : {500}, yAxisLeftIncludeZero : {TRUE}, yAxisLeftMin : {<<>>},
   axisMode : {"dual"}, lineStyle : LineStyles]

\* stroke-dasharray of a line style; "none" is the attribute left out
LineDash(lineStyle) ==
  CASE lineStyle = "dashed" -> "8,4"
    [] lineStyle = "dotted" -> "2,2"
    [] OTHER -> "none"

\* variant: the end of the draw-on leaves the dash pattern alone
EndDashKept(lineStyle) == "pathLength"

\* the dash pattern the end of the draw-on sets
EndDash(lineStyle) ==
  CASE lineStyle = "dashed" -> "8,4"
    [] lineStyle = "dotted" -> "2,2"
    [] OTHER -> "none"

\* variant: the previous elements are kept
ClearKeepsAll(elements) == elements

\* d3.select(svgRef.current).selectAll('*').remove()
Clear(elements) == {}

\* the elements one run of the effect appends, as they are when it returns:
\* bars and points before their transitions, the line with the path-length
\* dash pattern when it is animated
DrawnElements(gen, data, cfg) ==
  LET r == RenderChart(data, cfg)
  IN  {[gen |-> gen, el |-> "text", row |-> i, settled |-> TRUE, dash |-> "none"] :
         i \in DOMAIN r.texts}
      \cup {[gen |-> gen, el |-> b.cls, row |-> b.row, settled |-> FALSE, dash |-> "none"] :
              b \in r.rects}
      \cup (IF r.path # <<>>
            THEN {[gen |-> gen, el |-> "line", row |-> 0,
                   settled |-> ~cfg.animationEnabled,
                   dash |-> IF cfg.animationEnabled THEN "pathLength"
                            ELSE LineDash(cfg.lineStyle)]}
            ELSE {})
      \cup {[gen |-> gen, el |-> "line-point", row |-> p.row, settled |-> FALSE,
             dash |-> "none"] : p \in r.points}

\* the transitions of bars, line and points one run of the effect starts,
\* with what the end callback of the line sets
StartedTransitions(gen, data, cfg) ==
  {[gen |-> gen, el |-> t.el, row |-> t.row,
    endDash |-> IF t.el = "line" THEN EndDash(cfg.lineStyle) ELSE "none"] :
     t \in {x \in RenderChart(data, cfg).transitions :
              x.el \in {"bar1", "bar2", "line", "line-point"}}}

\* the render effect runs for new props; without rows the component returns
\* its placeholder and the svg node is not mounted
RenderAgain(data, cfg) ==
  /\ generation < MaxRenders
  /\ generation' = generation + 1
  /\ chartProps' = <<[data |-> data, config |-> cfg]>>
  /\ rendered' = <<RenderChart(data, cfg)>>
  /\ svg' = IF Len(data) = 0 THEN {}
            ELSE Clear(svg) \cup DrawnElements(generation + 1, data, cfg)
  /\ transitions' = transitions \cup StartedTransitions(generation + 1, data, cfg)
  /\ UNCHANGED <<tooltipCall, tooltipContent, resolveCall, resolveResult>>
  /\ UNCHANGED <<fnVars, loadVars>>
  /\ UNCHANGED appVars
  /\ UNCHANGED hostVars
  /\ UNCHANGED dialogVars
  /\ UNCHANGED hookVars

\* a transition ends: its element, if it is still there, has its final
\* attributes, and the line has the dash pattern of the end callback
TransitionEnds(t) ==
  /\ t \in transitions
  /\ transitions' = transitions \ {t}
  /\ svg' = {IF m.gen = t.gen /\ m.el = t.el /\ m.row = t.row
             THEN [m EXCEPT !.settled = TRUE, !.dash = t.endDash]
             ELSE m : m \in svg}
  /\ UNCHANGED <<chartProps, rendered, generation>>
  /\ UNCHANGED <<tooltipCall, tooltipContent, resolveCall, resolveResult>>
  /\ UNCHANGED <<fnVars, loadVars>>
  /\ UNCHANGED appVars
  /\ UNCHANGED hostVars
  /\ UNCHANGED dialogVars
  /\ UNCHANGED hookVars

SurfaceInit ==
  /\ AppIdle
  /\ ViewIdle

SurfaceNext ==
  \/ \E data \in SurfaceData, cfg \in SurfaceConfigs : RenderAgain(data, cfg)
  \/ \E t \in transitions : TransitionEnds(t)

SurfaceSpec == SurfaceInit /\ [][SurfaceNext]_vars

\* the timers of d3 fire: a running transition ends
SurfaceLiveSpec ==
  SurfaceSpec /\ WF_vars(\E t \in transitions : TransitionEnds(t))

\* ------------------------------------------------------ tooltip positioning
\* width and height of the viewport, in pixels
ViewportSize == 40

\* pointer coordinates inside the viewport
PointerCoords == {5 * k : k \in 0..(ViewportSize \div 5)}

\* sizes of the tooltip box, none larger than the viewport
TooltipSizes == {10, 25, ViewportSize}

PositionCalls ==
  [clientX : PointerCoords, clientY : PointerCoords,
   width : TooltipSizes, height : TooltipSizes]

\* left and top of the tooltip for a pointer event and the measured box
TooltipPosition(call) ==
  LET left0 == call.clientX + 15
      top0 == call.clientY - 10
      left == IF left0 + call.width > ViewportSize
              THEN call.clientX - call.width - 15 ELSE left0
      top1 == IF top0 + call.height > ViewportSize
              THEN call.clientY - call.height - 10 ELSE top0
      top == IF top1 < 0 THEN 5 ELSE top1
  IN  [left |-> left, top |-> top]

\* showTooltip places the tooltip
PlaceTooltip == FnReturns(TooltipPosition(fnCall[1]))

PositionInit == FnInit(PositionCalls)

PositionNext == PlaceTooltip

PositionSpec == PositionInit /\ [][PositionNext]_vars

\* ------------------------------------------------------- colour palettes
\* A colour is the sequence of the characters of its '#rrggbb' string.
HexChars == <<"0", "1", "2", "3", "4", "5", "6", "7",
              "8", "9", "a", "b", "c", "d", "e", "f">>

HexValue(c) == CHOOSE v \in 0..15 : HexChars[v + 1] = c

\* hex.replace('#', ''): the string without its first '#'
RemoveFirst(s, c) ==
  IF \E i \in 1..Len(s) : s[i] = c
  THEN LET i == CHOOSE j \in 1..Len(s) :
                  s[j] = c /\ \A k \in 1..(j - 1) : s[k] # c
       IN  SubSeq(s, 1, i - 1) \o SubSeq(s, i + 1, Len(s))
  ELSE s

\* parseInt(s, 16) of a string of hex digits
RECURSIVE ParseHex(_)
ParseHex(s) ==
  IF s = <<>> THEN 0
  ELSE 16 * ParseHex(SubSeq(s, 1, Len(s) - 1)) + HexValue(s[Len(s)])

\* n.toString(16)
RECURSIVE ToHex(_)
ToHex(n) ==
  IF n < 16 THEN <<HexChars[n + 1]>>
  ELSE ToHex(n \div 16) \o <<HexChars[(n % 16) + 1]>>

Max0(n) == IF n < 0 THEN 0 ELSE n

\* Config.darkenColor without the darkening
darkenColorSame(hex, percent) == hex

\* Config.darkenColor
darkenColor(hex, percent) ==
  LET num == ParseHex(RemoveFirst(hex, "#"))
      amt == (255 * percent + 50) \div 100
      R == Max0((num \div 65536) - amt)
      G == Max0(((num \div 256) % 256) - amt)
      B == Max0((num % 256) - amt)
  IN  <<"#">> \o Tail(ToHex(16777216 + R * 65536 + G * 256 + B))

\* Config.colorPalettes
colorPalettes ==
  ("tableau10" :>
     [name |-> "Tableau 10",
      colors |-> <<
        <<"#", "4", "e", "7", "9", "a", "7">>,
        <<"#", "f", "2", "8", "e", "2", "c">>,
        <<"#", "e", "1", "5", "7", "5", "9">>,
        <<"#", "7", "6", "b", "7", "b", "2">>,
        <<"#", "5", "9", "a", "1", "4", "f">>,
        <<"#", "e", "d", "c", "9", "4", "9">>,
        <<"#", "a", "f", "7", "a", "a", "1">>,
        <<"#", "f", "f", "9", "d", "a", "7">>,
        <<"#", "9", "c", "7", "5", "5", "f">>,
        <<"#", "b", "a", "b", "0", "a", "b">>>>]) @@
  ("tableau20" :>
     [name |-> "Tableau 20",
      colors |-> <<
        <<"#", "4", "e", "7", "9", "a", "7">>,
        <<"#", "a", "0", "c", "b", "e", "8">>,
        <<"#", "f", "2", "8", "e", "2", "c">>,
        <<"#", "f", "f", "b", "e", "7", "d">>,
        <<"#", "5", "9", "a", "1", "4", "f">>,
        <<"#", "8", "c", "d", "1", "7", "d">>,
        <<"#", "b", "6", "9", "9", "2", "d">>,
        <<"#", "f", "1", "c", "e", "6", "3">>,
        <<"#", "4", "9", "9", "8", "9", "4">>,
        <<"#", "8", "6", "b", "c", "b", "6">>,
        <<"#", "e", "1", "5", "7", "5", "9">>,
        <<"#", "f", "f", "9", "d", "9", "a">>,
        <<"#", "7", "9", "7", "0", "6", "e">>,
        <<"#", "b", "a", "b", "0", "a", "c">>,
        <<"#", "d", "3", "7", "2", "9", "5">>,
        <<"#", "f", "a", "b", "f", "d", "2">>,
        <<"#", "b", "0", "7", "a", "a", "1">>,
        <<"#", "d", "4", "a", "6", "c", "8">>,
        <<"#", "9", "d", "7", "6", "6", "0">>,
        <<"#", "d", "7", "b", "5", "a", "6">>>>]) @@
  ("colorBlind" :>
     [name |-> "Color Blind Safe",
      colors |-> <<
        <<"#", "1", "1", "7", "0", "a", "a">>,
        <<"#", "f", "c", "7", "d", "0", "b">>,
        <<"#", "a", "3", "a", "c", "b", "9">>,
        <<"#", "5", "7", "6", "0", "6", "c">>,
        <<"#", "5", "f", "a", "2", "c", "e">>,
        <<"#", "c", "8", "5", "2", "0", "0">>,
        <<"#", "7", "b", "8", "4", "8", "f">>,
        <<"#", "a", "3", "c", "c", "e", "9">>,
        <<"#", "f", "f", "b", "c", "7", "9">>,
        <<"#", "c", "8", "d", "0", "d", "9">>>>]) @@
  ("seattle" :>
     [name |-> "Seattle Grays",
      colors |-> <<
        <<"#", "7", "6", "7", "f", "8", "b">>,
        <<"#", "b", "3", "b", "7", "b", "8">>,
        <<"#", "5", "c", "6", "0", "6", "8">>,
        <<"#", "9", "e", "a", "4", "a", "c">>,
        <<"#", "d", "7", "d", "8", "d", "9">>,
        <<"#", "3", "b", "3", "f", "4", "5">>,
        <<"#", "8", "a", "8", "f", "9", "6">>,
        <<"#", "c", "6", "c", "9", "c", "c">>,
        <<"#", "4", "5", "4", "a", "5", "1">>,
        <<"#", "b", "a", "b", "d", "b", "f">>>>]) @@
  ("trafficLight" :>
     [name |-> "Traffic Light",
      colors |-> <<
        <<"#", "b", "1", "0", "3", "1", "8">>,
        <<"#", "d", "b", "a", "1", "3", "a">>,
        <<"#", "3", "0", "9", "3", "4", "3">>,
        <<"#", "d", "8", "2", "5", "2", "6">>,
        <<"#", "f", "f", "c", "1", "5", "6">>,
        <<"#", "6", "9", "b", "7", "6", "4">>,
        <<"#", "f", "2", "6", "c", "6", "4">>,
        <<"#", "f", "f", "d", "d", "7", "1">>,
        <<"#", "a", "5", "d", "9", "9", "f">>>>]) @@
  ("purpleGray" :>
     [name |-> "Purple-Gray",
      colors |-> <<
        <<"#", "7", "b", "6", "6", "d", "2">>,
        <<"#", "a", "6", "9", "9", "e", "8">>,
        <<"#", "d", "c", "5", "f", "b", "d">>,
        <<"#", "f", "f", "c", "0", "d", "a">>,
        <<"#", "5", "f", "5", "a", "4", "1">>,
        <<"#", "b", "4", "b", "1", "9", "b">>,
        <<"#", "9", "9", "5", "6", "8", "8">>,
        <<"#", "d", "8", "9", "8", "b", "a">>,
        <<"#", "a", "b", "6", "a", "d", "5">>,
        <<"#", "d", "0", "9", "8", "e", "e">>>>]) @@
  ("greenOrange" :>
     [name |-> "Green-Orange",
      colors |-> <<
        <<"#", "3", "2", "a", "2", "5", "1">>,
        <<"#", "a", "c", "d", "9", "8", "d">>,
        <<"#", "f", "f", "7", "f", "0", "f">>,
        <<"#", "f", "f", "b", "9", "7", "7">>,
        <<"#", "3", "c", "b", "7", "c", "c">>,
        <<"#", "9", "8", "d", "9", "e", "4">>,
        <<"#", "b", "8", "5", "a", "0", "d">>,
        <<"#", "f", "f", "d", "9", "4", "a">>,
        <<"#", "3", "9", "7", "3", "7", "c">>,
        <<"#", "8", "6", "b", "4", "a", "9">>>>]) @@
  ("blueRed" :>
     [name |-> "Blue-Red",
      colors |-> <<
        <<"#", "2", "c", "6", "9", "b", "0">>,
        <<"#", "b", "5", "c", "8", "e", "2">>,
        <<"#", "f", "0", "2", "7", "2", "0">>,
        <<"#", "f", "f", "b", "6", "b", "0">>,
        <<"#", "a", "c", "6", "1", "3", "c">>,
        <<"#", "e", "9", "c", "3", "9", "b">>,
        <<"#", "6", "b", "a", "3", "d", "6">>,
        <<"#", "b", "5", "d", "f", "f", "d">>,
        <<"#", "a", "c", "8", "7", "6", "3">>,
        <<"#", "d", "d", "c", "9", "b", "4">>>>]) @@
  ("cyclic" :>
     [name |-> "Cyclic",
      colors |-> <<
        <<"#", "1", "f", "8", "3", "b", "4">>,
        <<"#", "1", "2", "a", "2", "a", "8">>,
        <<"#", "2", "c", "a", "0", "3", "0">>,
        <<"#", "7", "8", "a", "6", "4", "1">>,
        <<"#", "b", "c", "b", "d", "2", "2">>,
        <<"#", "f", "f", "b", "f", "5", "0">>,
        <<"#", "f", "f", "a", "a", "0", "e">>,
        <<"#", "f", "f", "7", "f", "0", "e">>,
        <<"#", "d", "6", "3", "a", "3", "a">>,
        <<"#", "c", "7", "5", "1", "9", "c">>,
        <<"#", "b", "a", "4", "3", "b", "4">>,
        <<"#", "8", "a", "6", "0", "b", "0">>,
        <<"#", "6", "f", "6", "3", "b", "b">>>>]) @@
  ("classic" :>
     [name |-> "Classic",
      colors |-> <<
        <<"#", "7", "a", "b", "8", "0", "0">>,
        <<"#", "6", "a", "c", "7", "d", "e">>,
        <<"#", "f", "f", "6", "f", "0", "1">>,
        <<"#", "f", "b", "b", "0", "3", "4">>,
        <<"#", "6", "8", "a", "d", "e", "f">>,
        <<"#", "6", "d", "6", "e", "7", "0">>,
        <<"#", "a", "4", "d", "b", "c", "c">>,
        <<"#", "f", "f", "b", "f", "9", "a">>,
        <<"#", "b", "3", "d", "9", "f", "f">>,
        <<"#", "d", "0", "d", "0", "d", "0">>>>])

\* ids not in the table; 'constructor' is found on the prototype of the
\* table object, where the read of its colors raises before any write
InheritedIds == {"constructor"}

PaletteIds == DOMAIN colorPalettes \cup {"", "sunset"} \cup InheritedIds

\* the property read colorPalettes[paletteId]: <<>> for undefined
PaletteOf(paletteId) ==
  IF paletteId \in DOMAIN colorPalettes THEN <<colorPalettes[paletteId]>>
  ELSE <<>>

\* the colour keys of a configuration, and one key that is not a colour
DefaultColors ==
  [colorPalette |-> "tableau10",
   bar1Color |-> colorPalettes["tableau10"].colors[1],
   bar1BorderColor |-> <<"#", "3", "a", "5", "f", "8", "0">>,
   bar2Color |-> colorPalettes["tableau10"].colors[2],
   bar2BorderColor |-> <<"#", "c", "4", "7", "2", "2", "3">>,
   lineColor |-> colorPalettes["tableau10"].colors[3],
   pointFill |-> colorPalettes["tableau10"].colors[3],
   barStyle |-> "grouped"]

\* colours the colour pickers of the dialog can leave in the configuration
PickedColors == {<<"#", "0", "0", "0", "0", "0", "0">>,
                 <<"#", "f", "f", "c", "c", "0", "0">>}

PaletteConfigs ==
  {DefaultColors} \cup
  {[DefaultColors EXCEPT !.bar1Color = c, !.pointFill = c,
                         !.bar2BorderColor = c, !.barStyle = s] :
     c \in PickedColors, s \in {"grouped", "stacked"}}

PaletteCalls == [config : PaletteConfigs, paletteId : PaletteIds]

\* the configuration after the writes both palette handlers make
WithPalette(cfg, paletteId) ==
  LET found == PaletteOf(paletteId)
  IN  IF paletteId \in InheritedIds THEN cfg
      ELSE IF found # <<>> /\ Len(found[1].colors) >= 3
      THEN LET palette == found[1]
           IN  [cfg EXCEPT
                  !.colorPalette = paletteId,
                  !.bar1Color = palette.colors[1],
                  !.bar2Color = palette.colors[2],
                  !.lineColor = palette.colors[3],
                  !.pointFill = palette.colors[3],
                  !.bar1BorderColor = darkenColor(palette.colors[1], 20),
                  !.bar2BorderColor = darkenColor(palette.colors[2], 20)]
      ELSE cfg

\* Config.applyColorPalette on Config.current
applyColorPalette ==
  FnReturns([by |-> "Config",
             config |-> WithPalette(fnCall[1].config, fnCall[1].paletteId)])

\* the palette select of the settings dialog, on localConfig
handleApplyPalette ==
  FnReturns([by |-> "dialog",
             config |-> WithPalette(fnCall[1].config, fnCall[1].paletteId)])

PaletteInit == FnInit(PaletteCalls)

PaletteNext == applyColorPalette \/ handleApplyPalette

PaletteSpec == PaletteInit /\ [][PaletteNext]_vars

\* ------------------------------------------------- persistence of settings
\* JavaScript values, tagged with their kind; a string is the sequence of
\* its characters, an object the sequence of its <<key, value>> members.
JsString(chars) == [type |-> "string", chars |-> chars]
JsNumber(n) == [type |-> "number", num |-> n]
JsBoolean(b) == [type |-> "boolean", bool |-> b]
JsNull == [type |-> "null"]
JsObject(members) == [type |-> "object", members |-> members]

\* typeof value
typeof(value) == IF value.type = "null" THEN "object" ELSE value.type

\* the decimal text of an integer
NumberText(n) == IF n < 0 THEN <<"-">> \o DigitsOf(0 - n) ELSE DigitsOf(n)

\* String(value) of a value that is not an object
StringOf(value) ==
  CASE value.type = "string" -> value.chars
    [] value.type = "number" -> NumberText(value.num)
    [] value.type = "boolean" ->
         IF value.bool THEN <<"t", "r", "u", "e">>
         ELSE <<"f", "a", "l", "s", "e">>
    [] value.type = "null" -> <<"n", "u", "l", "l">>

\* JSON.stringify(value); strings here hold no quote and no backslash
RECURSIVE JSONstringify(_)
RECURSIVE StringifyMembers(_, _)
StringifyMembers(members, i) ==
  IF i > Len(members) THEN <<>>
  ELSE (IF i > 1 THEN <<",">> ELSE <<>>)
       \o <<"\"">> \o members[i][1] \o <<"\"", ":">>
       \o JSONstringify(members[i][2])
       \o StringifyMembers(members, i + 1)

JSONstringify(value) ==
  CASE value.type = "object" ->
         <<"{">> \o StringifyMembers(value.members, 1) \o <<"}">>
    [] value.type = "string" -> <<"\"">> \o value.chars \o <<"\"">>
    [] OTHER -> StringOf(value)

\* the text settings.set(key, ..) is called with for a value
EncodeSetting(value) ==
  IF typeof(value) = "object" THEN JSONstringify(value) ELSE StringOf(value)

\* --- JSON.parse, for texts without arrays, fractions, exponents, escapes
RECURSIVE SkipSpace(_, _)
SkipSpace(s, i) == IF CharAt(s, i) = " " THEN SkipSpace(s, i + 1) ELSE i

StartsAt(s, i, word) ==
  /\ i + Len(word) - 1 <= Len(s)
  /\ SubSeq(s, i, i + Len(word) - 1) = word

ParseFails(i) == [ok |-> FALSE, value |-> JsNull, next |-> i]

Parsed(value, next) == [ok |-> TRUE, value |-> value, next |-> next]

\* a quoted string starting at i
ParseString(s, i) ==
  IF CharAt(s, i) # "\"" THEN ParseFails(i)
  ELSE LET closing == {k \in (i + 1)..Len(s) : s[k] = "\""}
       IN  IF closing = {} THEN ParseFails(i)
           ELSE LET k == CHOOSE c \in closing : \A d \in closing : c <= d
                IN  IF \E p \in (i + 1)..(k - 1) : s[p] = "\\"
                    THEN ParseFails(i)
                    ELSE Parsed(JsString(SubSeq(s, i + 1, k - 1)), k + 1)

\* a number starting at i: -?(0|[1-9][0-9]*)
ParseNumber(s, i) ==
  LET first == IF CharAt(s, i) = "-" THEN i + 1 ELSE i
      last == SkipDigits(s, first)
  IN  IF last = first THEN ParseFails(i)
      ELSE IF s[first] = "0" /\ last > first + 1 THEN ParseFails(i)
      ELSE IF CharAt(s, last) \in {".", "e", "E"} THEN ParseFails(i)
      ELSE Parsed(JsNumber((IF first > i THEN -1 ELSE 1)
                           * DigitsValue(SubSeq(s, first, last - 1))), last)

RECURSIVE ParseValue(_, _)
RECURSIVE ParseMembers(_, _, _)
\* the members of an object after '{' or ',', up to and including '}'
ParseMembers(s, i, members) ==
  LET key == ParseString(s, SkipSpace(s, i))
      colon == SkipSpace(s, key.next)
      member == ParseValue(s, colon + 1)
      after == SkipSpace(s, member.next)
  IN  IF ~key.ok \/ CharAt(s, colon) # ":" THEN ParseFails(i)
      ELSE IF ~member.ok THEN ParseFails(i)
      ELSE LET all == Append(members, <<key.value.chars, member.value>>)
           IN  IF CharAt(s, after) = "}" THEN Parsed(JsObject(all), after + 1)
               ELSE IF CharAt(s, after) = ","
               THEN ParseMembers(s, after + 1, all)
               ELSE ParseFails(i)

ParseValue(s, i) ==
  LET j == SkipSpace(s, i)
      c == CharAt(s, j)
  IN  IF StartsAt(s, j, <<"n", "u", "l", "l">>) THEN Parsed(JsNull, j + 4)
      ELSE IF StartsAt(s, j, <<"t", "r", "u", "e">>)
      THEN Parsed(JsBoolean(TRUE), j + 4)
      ELSE IF StartsAt(s, j, <<"f", "a", "l", "s", "e">>)
      THEN Parsed(JsBoolean(FALSE), j + 5)
      ELSE IF c = "\"" THEN ParseString(s, j)
      ELSE IF c = "-" \/ IsDigit(c) THEN ParseNumber(s, j)
      ELSE IF c = "{"
      THEN IF CharAt(s, SkipSpace(s, j + 1)) = "}"
           THEN Parsed(JsObject(<<>>), SkipSpace(s, j + 1) + 1)
           ELSE ParseMembers(s, j + 1, <<>>)
      ELSE ParseFails(j)

\* JSON.parse(text): <<value>>, or <<>> when it throws
JSONparse(text) ==
  LET r == ParseValue(text, 1)
  IN  IF r.ok /\ SkipSpace(text, r.next) > Len(text) THEN <<r.value>>
      ELSE <<>>

\* the value loadInitialConfig puts into the configuration for a text
DecodeSetting(text) ==
  IF JSONparse(text) # <<>> THEN JSONparse(text)[1] ELSE JsString(text)

\* titles the title input of the dialog can hold
TitleTexts ==
  {<<>>, <<"S", "a", "l", "e", "s">>, <<"1", "2", "3">>, <<"-", "5">>,
   <<"0", "0", "7">>, <<"t", "r", "u", "e">>, <<"n", "u", "l", "l">>,
   <<"{", "}">>, <<" ", "1", "2">>, <<"\"", "Q", "1", "\"">>}

\* the default margins and a font specification
MarginsValue ==
  JsObject(<<<<<<"t", "o", "p">>, JsNumber(20)>>,
             <<<<"l", "e", "f", "t">>, JsNumber(60)>>>>)

FontValue ==
  JsObject(<<<<<<"s", "i", "z", "e">>, JsString(<<"1", "2">>)>>,
             <<<<"b", "o", "l", "d">>, JsBoolean(FALSE)>>,
             <<<<"b", "o", "x">>, MarginsValue>>>>)

\* configurations the widget can hold, as functions from key to value
StoredConfigs ==
  {  ("titleText" :> JsString(t))
  @@ ("yAxisLeftMin" :> m)
  @@ ("useManualMapping" :> JsBoolean(b))
  @@ ("margins" :> o) :
     t \in TitleTexts, m \in {JsNull, JsNumber(0), JsNumber(-5)},
     b \in BOOLEAN, o \in {MarginsValue, FontValue, JsObject(<<>>)}}

\* one step on fnResult that leaves everything else alone
FnStep(value) ==
  /\ fnResult' = <<value>>
  /\ UNCHANGED <<chartProps, rendered, tooltipCall, tooltipContent, resolveCall,
                 resolveResult, fnCall>>
  /\ UNCHANGED <<surfaceVars, loadVars>>
  /\ UNCHANGED appVars
  /\ UNCHANGED hostVars
  /\ UNCHANGED dialogVars
  /\ UNCHANGED hookVars

\* what settings.set receives for every key of the configuration
SettingsOf(cfg) == [k \in DOMAIN cfg |-> EncodeSetting(cfg[k])]

\* the debounced save of the widget writes every key
DebouncedSave ==
  /\ fnCall # <<>>
  /\ fnResult = <<>>
  /\ FnStep([by |-> "widget", stored |-> SettingsOf(fnCall[1]),
             loaded |-> <<>>])

\* the Save button of the dialog writes every key
HandleSave ==
  /\ fnCall # <<>>
  /\ fnResult = <<>>
  /\ FnStep([by |-> "dialog", stored |-> SettingsOf(fnCall[1]),
             loaded |-> <<>>])

\* loadInitialConfig of a later session decodes every stored key
LoadInitialConfig ==
  /\ fnResult # <<>>
  /\ fnResult[1].loaded = <<>>
  /\ FnStep([fnResult[1] EXCEPT
       !.loaded = <<[k \in DOMAIN fnResult[1].stored |->
                       DecodeSetting(fnResult[1].stored[k])]>>])

PersistInit == FnInit(StoredConfigs)

PersistNext == DebouncedSave \/ HandleSave \/ LoadInitialConfig

PersistSpec == PersistInit /\ [][PersistNext]_vars

\* ----------------------------------------------------- overlapping loads
\* loadData calls started in one session
MaxLoads == 3

\* the hook after initializeAsync resolved: the first loadData is awaiting
\* the host and the SummaryDataChanged listener is registered
OverlapInit ==
  /\ phase = "running"
  /\ hostSettings \in InitialSettings
  /\ config = LoadSettings(DefaultConfig, hostSettings)
  /\ configCurrent = LoadSettings(DefaultConfig, hostSettings)
  /\ encodingMap = EmptyMap
  /\ saveTimerRef = 0
  /\ timers = {}
  /\ nextTimerId = 1
  /\ cleanupSet = FALSE
  /\ settingsEvent = FALSE
  /\ loadPending = TRUE
  /\ encEvents = 0
  /\ dialogOpen = FALSE
  /\ dialogEnc = EmptyMap
  /\ dialogConfig = DefaultConfig
  /\ localConfig = DefaultConfig
  /\ bannerReset = FALSE
  /\ writeTick = FALSE
  /\ dialogInputs = 0
  /\ hasLoadedInitialSettings = TRUE
  /\ initialLoads = 1
  /\ dataListener = TRUE
  /\ loading = TRUE
  /\ error = "null"
  /\ lastLoad = "none"
  /\ chartProps = <<>>
  /\ rendered = <<>>
  /\ tooltipCall = <<>>
  /\ tooltipContent = <<>>
  /\ resolveCall = <<>>
  /\ resolveResult = <<>>
  /\ fnCall = <<>>
  /\ fnResult = <<>>
  /\ SurfaceIdle
  /\ inFlight = {1}
  /\ started = 1
  /\ shown = <<>>

\* loadData up to its await: setLoading(true), then both fetches are sent
StartLoad ==
  /\ started < MaxLoads
  /\ started' = started + 1
  /\ inFlight' = inFlight \cup {started + 1}
  /\ loading' = TRUE
  /\ loadPending' = TRUE
  /\ UNCHANGED <<shown, error, lastLoad, encodingMap, encEvents>>
  /\ UNCHANGED <<phase, config, configCurrent, saveTimerRef, timers, nextTimerId,
                 cleanupSet>>
  /\ UNCHANGED <<hostSettings, settingsEvent>>
  /\ UNCHANGED <<hasLoadedInitialSettings, initialLoads, dataListener>>
  /\ UNCHANGED dialogVars
  /\ UNCHANGED <<chartProps, rendered, tooltipCall, tooltipContent, resolveCall,
                 resolveResult, fnVars, surfaceVars>>

\* a SummaryDataChanged event calls loadData while loads may be in flight
DataChangedOverlaps == dataListener /\ StartLoad

\* refreshData (the refresh button, Retry) calls loadData likewise
RetryOverlaps == phase = "running" /\ StartLoad

\* what the hook shows after load l has written its rows and columns
ShownAfterResolve(l) == <<[rows |-> l, by |-> l]>>

\* what the hook shows after load l has written its error
ShownAfterReject(l) ==
  <<[rows |-> IF shown = <<>> THEN 0 ELSE shown[1].rows, by |-> l]>>

\* the Promise.all of load l resolves with map m: the rest of the try block
\* and the finally block run, whatever else is in flight
LoadResolves(l, m) ==
  /\ l \in inFlight
  /\ inFlight' = inFlight \ {l}
  /\ loadPending' = (inFlight \ {l} # {})
  /\ encodingMap' = m
  /\ shown' = ShownAfterResolve(l)
  /\ error' = LoadError(TRUE, TRUE)
  /\ loading' = FALSE
  /\ lastLoad' = "ok"
  /\ encEvents' = encEvents + 1
  /\ EncodingEffects(m)
  /\ UNCHANGED <<phase, hostSettings, settingsEvent, dataListener, started>>
  /\ UNCHANGED dialogVars
  /\ UNCHANGED <<chartProps, rendered, tooltipCall, tooltipContent, resolveCall,
                 resolveResult, fnVars, surfaceVars>>

\* the Promise.all of load l rejects: the catch and finally blocks run
LoadRejects(l) ==
  /\ l \in inFlight
  /\ inFlight' = inFlight \ {l}
  /\ loadPending' = (inFlight \ {l} # {})
  /\ shown' = ShownAfterReject(l)
  /\ error' = LoadError(TRUE, FALSE)
  /\ loading' = FALSE
  /\ lastLoad' = "rowsFailed"
  /\ encEvents' = encEvents + 1
  /\ UNCHANGED <<phase, config, configCurrent, encodingMap, saveTimerRef, timers,
                 nextTimerId, cleanupSet, hostSettings, settingsEvent, started>>
  /\ UNCHANGED <<hasLoadedInitialSettings, initialLoads, dataListener>>
  /\ UNCHANGED dialogVars
  /\ UNCHANGED <<chartProps, rendered, tooltipCall, tooltipContent, resolveCall,
                 resolveResult, fnVars, surfaceVars>>

OverlapNext ==
  \/ DataChangedOverlaps
  \/ RetryOverlaps
  \/ \E l \in inFlight, m \in EncMaps : LoadResolves(l, m)
  \/ \E l \in inFlight : LoadRejects(l)

OverlapSpec == OverlapInit /\ [][OverlapNext]_vars

\* ------------------------------------------------- vocabulary of the claims
\* the four mapping fields of a configuration
MappingOf(cfg) == <<cfg.dimension, cfg.bar1Measure, cfg.bar2Measure, cfg.lineMeasure>>

\* the four roles of an encoding map, an absent role read as the empty string
ResolvedOf(m) ==
  << IF "dimension" \in DOMAIN m THEN m["dimension"] ELSE "",
     IF "bar1" \in DOMAIN m THEN m["bar1"] ELSE "",
     IF "bar2" \in DOMAIN m THEN m["bar2"] ELSE "",
     IF "line" \in DOMAIN m THEN m["line"] ELSE "" >>

NoMapping == <<"", "", "", "">>

PendingTimers(ts) == {t \in ts : t.st = "pending"}

\* this step is an encoding event (a loadData completion)
IsEncodingStep == encEvents' = encEvents + 1 /\ lastLoad' # "rowsFailed"

\* this step starts a persistence write (a timeout fires)
IsTimerFire == \E t \in timers : t.st = "pending" /\ [t EXCEPT !.st = "saving"] \in timers'

\* this step is a Save or Apply of the dialog
IsDialogWrite == writeTick' # writeTick

\* the timeouts this step has scheduled
ScheduledNow == {t \in timers' : \A u \in timers : u.id # t.id}

\* all delivered host events are processed
Quiescent == phase = "running" /\ ~settingsEvent /\ ~loadPending

\* ---------------------------------------------------------------- claims
\* C1: while useManualMapping is true, an encoding event leaves the four
\* mapping fields and the flag unchanged.
C1_ManualOverrideFrozen ==
  [][(IsEncodingStep /\ config.useManualMapping)
       => (MappingOf(config') = MappingOf(config) /\ config'.useManualMapping)]_vars

\* C2: in every quiescent state after the initial load with useManualMapping
\* false and a non-empty latest encoding map, the four mapping fields equal
\* the encoding map's entries.
C2_MergePrecedence ==
  (Quiescent /\ ~config.useManualMapping /\ DOMAIN encodingMap # {})
    => MappingOf(config) = ResolvedOf(encodingMap)

\* C3 (as stated): with useManualMapping false, an encoding event whose values
\* differ from the current mapping updates the four fields and schedules
\* exactly one write; one whose values are equal changes nothing and
\* schedules none.
C3_EncodingEventAnyMap ==
  [][(IsEncodingStep /\ ~config.useManualMapping)
       => IF MappingOf(config) # ResolvedOf(encodingMap')
          THEN MappingOf(config') = ResolvedOf(encodingMap')
               /\ Cardinality(ScheduledNow) = 1
          ELSE config' = config /\ ScheduledNow = {}]_vars

\* C3 (amended): the same for an encoding event whose map is not empty.
C3_EncodingEventNonEmptyMap ==
  [][(IsEncodingStep /\ ~config.useManualMapping /\ DOMAIN encodingMap' # {})
       => IF MappingOf(config) # ResolvedOf(encodingMap')
          THEN MappingOf(config') = ResolvedOf(encodingMap')
               /\ Cardinality(ScheduledNow) = 1
               /\ \A t \in ScheduledNow : t.st = "pending" /\ t.cfg = config'
          ELSE config' = config /\ ScheduledNow = {}]_vars

\* an encoding event has changed the mapping and its write is pending
C3_Witness ==
  /\ phase = "running"
  /\ encEvents >= 2
  /\ ~config.useManualMapping
  /\ MappingOf(config) = <<"Region", "Profit", "", "">>
  /\ ResolvedOf(encodingMap) = MappingOf(config)
  /\ \E t \in timers : t.id = saveTimerRef /\ t.st = "pending" /\ t.cfg = config

\* C4: at every moment at most one persistence write is pending.
C4_AtMostOnePending == Cardinality(PendingTimers(timers)) <= 1

\* C5: once the widget is torn down, no settings.set / saveAsync is started.
C5_NoWriteAfterTeardown == [][phase = "torn" => ~IsTimerFire]_vars

\* C6: whenever the debounce timer fires, the values it writes to host
\* settings are those of the current configuration.
C6_WriteReflectsCurrentConfig ==
  [][IsTimerFire => hostSettings' = [k \in ConfigKeys |-> EncodeValue(k, config[k])]]_vars

\* C7: while the widget is mounted, a pending write is never cancelled
\* without being rescheduled: it stays pending, is replaced, or fires.
C7_PendingWriteNotDropped ==
  [][(phase' = "running" /\ PendingTimers(timers) # {})
       => (PendingTimers(timers') # {} \/ IsTimerFire)]_vars

C9_ResetClearsFlag ==
  [][(IsDialogWrite /\ bannerReset) => hostSettings'["useManualMapping"] = "false"]_vars

\* C10 (as stated): when the encoding map becomes empty while useManualMapping
\* is false and some mapping field is set, the four fields are cleared and a
\* write is scheduled.
C10_EmptyMapClears ==
  [][(IsEncodingStep /\ DOMAIN encodingMap' = {} /\ DOMAIN encodingMap # {}
        /\ ~config.useManualMapping /\ MappingOf(config) # NoMapping)
       => (MappingOf(config') = NoMapping /\ ScheduledNow # {})]_vars

\* C10 (amended): an encoding event with an empty map leaves the
\* configuration unchanged and schedules no write.
C10_EmptyMapIgnored ==
  [][(IsEncodingStep /\ DOMAIN encodingMap' = {})
       => (config' = config /\ ScheduledNow = {} /\ saveTimerRef' = saveTimerRef)]_vars

\* the map went from non-empty to empty and the mapping is still set
C10_Witness ==
  /\ phase = "running"
  /\ encEvents >= 2
  /\ DOMAIN encodingMap = {}
  /\ ~cleanupSet
  /\ saveTimerRef # 0
  /\ ~config.useManualMapping
  /\ MappingOf(config) = <<"Region", "Sales", "", "">>

\* this step completes a loadData call of the mounted widget
IsLoadCompletion == encEvents' = encEvents + 1

\* this step invokes loadData
IsLoadStart == loadPending' /\ ~loadPending

\* C11: the persisted settings are loaded and merged over the defaults exactly
\* once, at host connection; no later step (encoding change, data change,
\* settings reload) runs the initial load again, and no encoding event
\* changes the mapping before the initial load has run.
C11_InitialLoadOnce ==
  [][/\ initialLoads' # initialLoads
          => /\ phase = "init" /\ phase' = "running"
             /\ initialLoads = 0 /\ initialLoads' = 1
             /\ config' = LoadSettings(DefaultConfig, hostSettings)
     /\ phase' # "init" => initialLoads' = 1
     /\ (IsEncodingStep /\ config' # config) => initialLoads = 1]_vars

\* the initial load has merged stored settings, and later encoding events
\* have replaced the mapping
C11_Witness ==
  /\ phase = "running"
  /\ initialLoads = 1
  /\ encEvents >= 2
  /\ DOMAIN hostSettings # {}
  /\ MappingOf(LoadSettings(DefaultConfig, hostSettings)) = <<"Region", "Profit", "", "">>
  /\ MappingOf(config) = <<"Region", "Sales", "", "">>

\* C12: after teardown the data-changed listener is removed: no step of the
\* torn-down widget invokes loadData.
C12_NoLoadAfterTeardown == [][phase = "torn" => ~IsLoadStart]_vars

\* C13: when a loadData call completes, loading is false, the error state is
\* set exactly when the row fetch failed, a failed encoding fetch alone
\* gives the empty encoding map and no error, and a successful load clears
\* an earlier error.
C13_ErrorIffRowFetchFailed ==
  [][IsLoadCompletion
       => /\ ~loading'
          /\ (error' # "null") <=> (lastLoad' = "rowsFailed")
          /\ lastLoad' = "encFailed" => (encodingMap' = EmptyMap /\ error' = "null")
          /\ lastLoad' = "rowsFailed" => encodingMap' = encodingMap
          /\ (error # "null" /\ lastLoad' = "ok") => error' = "null"]_vars

\* a row fetch has failed after an earlier load had delivered encodings
C13_Witness ==
  /\ phase = "running"
  /\ lastLoad = "rowsFailed"
  /\ error = "Failed to load data"
  /\ ~loading
  /\ ~loadPending
  /\ DOMAIN encodingMap # {}

\* the mapping lacks the category or every measure
Insufficient(cfg) ==
  cfg.dimension = ""
    \/ (cfg.bar1Measure = "" /\ cfg.bar2Measure = "" /\ cfg.lineMeasure = "")

\* the instruction that names exactly the missing roles
Instruction(cfg) ==
  "Assign " \o (IF cfg.dimension = "" THEN "a Category dimension" ELSE "")
    \o (IF cfg.dimension = ""
           /\ cfg.bar1Measure = "" /\ cfg.bar2Measure = "" /\ cfg.lineMeasure = ""
        THEN " and " ELSE "")
    \o (IF cfg.bar1Measure = "" /\ cfg.bar2Measure = "" /\ cfg.lineMeasure = ""
        THEN "at least one measure" ELSE "")

\* nothing of the chart proper is drawn
NoChartDrawn(r) ==
  r.yLeft = <<>> /\ r.rects = {} /\ r.path = <<>> /\ r.points = {} /\ ~r.axes

\* C14 (as stated): for every render, an insufficient mapping gives only the
\* instruction naming exactly the missing roles and no scales, bars, line,
\* points or axes; a sufficient mapping gives the chart and no instruction.
C14_GuidedEmptyStateAnyData ==
  rendered # <<>> =>
    LET cfg == chartProps[1].config
        r == rendered[1]
    IN IF Insufficient(cfg)
       THEN r.texts # <<>> /\ r.texts[1] = Instruction(cfg) /\ NoChartDrawn(r)
       ELSE r.texts = <<>> /\ r.yLeft # <<>> /\ r.axes

\* C14 (amended): the same for a render with at least one row; with no rows
\* neither the instruction nor the chart is drawn (the component shows its
\* "No data available" placeholder).
C14_GuidedEmptyStateWithRows ==
  rendered # <<>> =>
    LET cfg == chartProps[1].config
        r == rendered[1]
    IN IF Len(chartProps[1].data) = 0
       THEN r.placeholder /\ r.texts = <<>> /\ NoChartDrawn(r)
       ELSE /\ ~r.placeholder
            /\ IF Insufficient(cfg)
               THEN r.texts # <<>> /\ r.texts[1] = Instruction(cfg) /\ NoChartDrawn(r)
               ELSE r.texts = <<>> /\ r.yLeft # <<>> /\ r.axes

\* rows are present, nothing is mapped, and both roles are named
C14_Witness ==
  /\ rendered # <<>>
  /\ Len(chartProps[1].data) = MaxRows
  /\ chartProps[1].config.dimension = ""
  /\ ~HasMeasure(chartProps[1].config)
  /\ rendered[1].texts[1] = "Assign a Category dimension and at least one measure"

\* final attributes of bars, line and points
Geometry(r) == [rects |-> r.rects, path |-> r.path, points |-> r.points]

\* C16: the frame reached when all transitions have ended is the same with
\* animationEnabled true and false (bar y/height, line path, point
\* positions), and with animationEnabled false every transition has zero
\* duration and zero delay.
C16_AnimationCosmetic ==
  rendered # <<>> =>
    LET p == chartProps[1]
        other == RenderChart(p.data, [p.config EXCEPT !.animationEnabled = ~@])
    IN /\ Geometry(rendered[1]) = Geometry(other)
       /\ ~p.config.animationEnabled
            => \A t \in rendered[1].transitions : t.duration = 0 /\ t.delay = 0

\* grouped bars of both series, a line and its points drawn for two rows
\* with animation off
C16_Witness ==
  /\ rendered # <<>>
  /\ ~chartProps[1].config.animationEnabled
  /\ chartProps[1].config.barStyle = "grouped"
  /\ Len(chartProps[1].data) = MaxRows
  /\ \A el \in {"bar1", "bar2", "line-point", "bar1-label"} :
       \E t \in rendered[1].transitions : t.el = el /\ t.row = MaxRows
  /\ Len(rendered[1].path) = MaxRows

\* C17: with stacked bars, the bar1 segment's top is at the position of bar1
\* and the bar2 segment spans from the position of bar1 to the position of
\* bar1 + bar2 (an unmapped bar1 counting as 0).
C17_StackedGeometry ==
  (rendered # <<>> /\ rendered[1].axes /\ chartProps[1].config.barStyle = "stacked") =>
    LET p == chartProps[1]
        r == rendered[1]
        bar1(i) == IF p.config.bar1Measure # "" THEN p.data[i][p.config.bar1Measure] ELSE 0
        bar2(i) == IF p.config.bar2Measure # "" THEN p.data[i][p.config.bar2Measure] ELSE 0
    IN /\ \A i \in DOMAIN p.data :
            /\ p.config.bar1Measure # "" => \E b \in r.rects : b.cls = "bar1" /\ b.row = i
            /\ p.config.bar2Measure # "" => \E b \in r.rects : b.cls = "bar2" /\ b.row = i
       /\ \A b \in r.rects :
            /\ b.cls = "bar1" => b.y = ScalePos(r.yLeft, bar1(b.row))
            /\ b.cls = "bar2" =>
                 /\ b.y = ScalePos(r.yLeft, bar1(b.row) + bar2(b.row))
                 /\ b.y + b.height = ScalePos(r.yLeft, bar1(b.row))

\* a stack of both series is drawn: the upper segment rests on bar1
C17_Witness ==
  /\ rendered # <<>>
  /\ chartProps[1].config.barStyle = "stacked"
  /\ chartProps[1].config.bar1Measure = "Sales"
  /\ chartProps[1].config.bar2Measure = "Profit"
  /\ \E b \in rendered[1].rects :
       /\ b.cls = "bar2"
       /\ chartProps[1].data[b.row].Sales = 10
       /\ chartProps[1].data[b.row].Profit = 30
       /\ b.y = ScalePos(rendered[1].yLeft, 40)
       /\ b.height = 300

\* the least value of the mapped bar series
MappedBarMin(data, cfg) ==
  SetMin({data[i][cfg.bar1Measure] : i \in {j \in DOMAIN data : cfg.bar1Measure # ""}} \cup
         {data[i][cfg.bar2Measure] : i \in {j \in DOMAIN data : cfg.bar2Measure # ""}})

\* C18: with yAxisLeftIncludeZero false and no yAxisLeftMin, the computed
\* left-axis domain minimum is 0.9 times the least value of the mapped bar
\* series (in tenths: 9 times), whichever of bar1 and bar2 are mapped.
C18_ZeroExclusionMin ==
  (/\ rendered # <<>>
   /\ rendered[1].axes
   /\ ~chartProps[1].config.yAxisLeftIncludeZero
   /\ chartProps[1].config.yAxisLeftMin = <<>>
   /\ (chartProps[1].config.bar1Measure # "" \/ chartProps[1].config.bar2Measure # ""))
    => rendered[1].yLeftDomain[1] = 9 * MappedBarMin(chartProps[1].data, chartProps[1].config)

\* every key of the option table is present with a defined value
AllKeysDefined(cfg) ==
  /\ DOMAIN cfg = ConfigKeys
  /\ cfg.useManualMapping \in BOOLEAN
  /\ \A k \in ConfigKeys \ {"useManualMapping"} : cfg[k] # "undefined"

\* C15: in every reachable state every key of the default option table is
\* present in the effective configuration (of the widget, of its extension
\* context, of the open dialog) with a defined value, and after the initial
\* load the keys absent from the persisted settings have their default.
C15_DefaultsInvariant ==
  /\ AllKeysDefined(config)
  /\ AllKeysDefined(configCurrent)
  /\ dialogOpen => (AllKeysDefined(dialogConfig) /\ AllKeysDefined(localConfig))
  /\ (phase = "running" /\ encEvents = 0 /\ ~writeTick)
       => \A k \in ConfigKeys \ DOMAIN hostSettings : config[k] = DefaultConfig[k]

\* settings holding only some keys were loaded and a later encoding event
\* and a dialog round trip have been applied
C15_Witness ==
  /\ phase = "running"
  /\ encEvents >= 1
  /\ writeTick
  /\ ~settingsEvent
  /\ config.dimension = "Region"
  /\ config.bar1Measure = "Sales"
  /\ config.titleText = "Combo Chart"
  /\ hostSettings = WriteSettings(config)

\* the hover of the example: template of two label lines, fields Region and
\* Sales, no custom label or axis title, category West, bar1 1234.5
IsExampleHover(call) ==
  /\ call.config.tooltipUseCustom
  /\ call.config.tooltipTemplate = LabelTemplate
  /\ call.config.dimension = RegionField
  /\ call.config.bar1Measure = SalesField
  /\ call.config.legendDimensionLabel = ""
  /\ call.config.legendBar1Label = ""
  /\ call.config.xAxisTitle = ""
  /\ call.point.category = "West"
  /\ call.point.bar1 = 123450

\* what a piece of a template line stands for, read in a single pass
PieceMeaning(piece, call) ==
  IF \E k \in 1..Len(TokenOrder) : TokenOrder[k] = piece
  THEN Replacement(CHOOSE k \in 1..Len(TokenOrder) : TokenOrder[k] = piece, call)
  ELSE piece

LineMeaning(line, call) == [i \in 1..Len(line) |-> PieceMeaning(line[i], call)]

\* the lines that are not blank after substitution, in order
RECURSIVE KeptLines(_, _, _)
KeptLines(lines, i, call) ==
  IF i > Len(lines) THEN <<>>
  ELSE LET m == LineMeaning(lines[i], call)
       IN  (IF \A j \in 1..Len(m) : m[j] \in WhiteSpace THEN <<>> ELSE <<Concat(m)>>)
           \o KeptLines(lines, i + 1, call)

TemplateMode(call) == call.config.tooltipUseCustom /\ call.config.tooltipTemplate # <<>>

RowTexts(rows) == [i \in 1..Len(rows) |-> rows[i].text]

\* in template mode each line that is not blank after substitution yields one
\* row, in order, with every token replaced by its label or value
GeneralSubstitution ==
  (tooltipCall # <<>> /\ tooltipContent # <<>> /\ TemplateMode(tooltipCall[1]))
    => /\ RowTexts(tooltipContent[1])
            = KeptLines(tooltipCall[1].config.tooltipTemplate, 1, tooltipCall[1])
       /\ \A i \in 1..Len(tooltipContent[1]) : tooltipContent[1][i].class = "tooltip-row"

\* C19 (as stated): the example hover produces exactly the two rows
\* 'Category : West' and 'Sales : 1,234.50', and in general each template line
\* yields one row with its tokens replaced, blank lines being dropped.
C19_ExampleShowsCategory ==
  /\ (tooltipCall # <<>> /\ tooltipContent # <<>> /\ IsExampleHover(tooltipCall[1]))
       => RowTexts(tooltipContent[1]) = <<"Category : West", "Sales : 1,234.50">>
  /\ GeneralSubstitution

\* C19 (amended): the example hover produces exactly the two rows
\* 'Region : West' and 'Sales : 1,234.50' (the dimension label is the cleaned
\* field name; 'Category' labels an unmapped dimension only), and in general
\* each template line yields one row with its tokens replaced, blank lines
\* being dropped.
C19_ExampleShowsFieldName ==
  /\ (tooltipCall # <<>> /\ tooltipContent # <<>> /\ IsExampleHover(tooltipCall[1]))
       => RowTexts(tooltipContent[1]) = <<"Region : West", "Sales : 1,234.50">>
  /\ GeneralSubstitution

\* the example hover has been shown
C19_Witness ==
  /\ tooltipCall # <<>>
  /\ tooltipContent # <<>>
  /\ IsExampleHover(tooltipCall[1])
  /\ Len(tooltipContent[1]) = 2

\* the i-th column is the first one that satisfies the test
IsFirstColumn(i, cols, Test(_)) == Test(cols[i]) /\ \A j \in 1..(i - 1) : ~Test(cols[j])

\* C20: the resolution of a base field name against the data columns is the
\* exact-match column if there is one, else the first column that contains
\* the name wrapped in parentheses, else the first column that ends with the
\* name, else the base name itself; it is always a column name or the input.
C20_FieldResolution ==
  (resolveCall # <<>> /\ resolveResult # <<>>) =>
    LET b == resolveCall[1].baseFieldName
        cols == resolveCall[1].cols
        r == resolveResult[1]
        n == Len(cols)
        Exact(c) == c = b
        Wrapped(c) == Includes(c, <<"(">> \o b \o <<")">>)
        Suffix(c) == EndsWith(c, b)
        some(T(_)) == \E i \in 1..n : T(cols[i])
    IN  /\ r = b \/ \E i \in 1..n : r = cols[i]
        /\ some(Exact) => r = b
        /\ (~some(Exact) /\ some(Wrapped))
             => \E i \in 1..n : r = cols[i] /\ IsFirstColumn(i, cols, Wrapped)
        /\ (~some(Exact) /\ ~some(Wrapped) /\ some(Suffix))
             => \E i \in 1..n : r = cols[i] /\ IsFirstColumn(i, cols, Suffix)
        /\ (~some(Exact) /\ ~some(Wrapped) /\ ~some(Suffix)) => r = b
        /\ (b = SalesField /\ cols = <<RegionField, SumSalesColumn>>) => r = SumSalesColumn

\* 'Sales' has been resolved against the columns Region and SUM(Sales)
C20_Witness ==
  /\ resolveCall = <<[baseFieldName |-> SalesField, cols |-> <<RegionField, SumSalesColumn>>]>>
  /\ resolveResult = <<SumSalesColumn>>

\* the formatter call that has returned
FormatDone == fnCall # <<>> /\ fnResult # <<>>

\* getFormatter does not throw, a returned function gives a string, and an
\* invalid custom specifier gives the plain coercion of the value
FormatterTotal ==
  FormatDone =>
    LET opts == fnCall[1].opts
        r == fnResult[1]
    IN  /\ r.returned.kind \in {"null", "function"}
        /\ r.returned.kind = "function" => Len(r.output) = 1
        /\ (opts.format = "custom" /\ opts.customFormat # <<>>
              /\ D3FormatThrows(opts.customFormat))
             => r.output = <<opts.prefix \o ToString(fnCall[1].value) \o opts.suffix>>

\* C21 (as stated): getFormatter never throws and returns null exactly for
\* format 'auto' or unset, else a function that returns a string for any
\* finite number; an invalid custom specifier degrades to plain coercion.
C21_NullOnlyForAuto ==
  /\ FormatterTotal
  /\ FormatDone => (fnResult[1].returned.kind = "null"
                      <=> fnCall[1].opts.format \in {"", "auto"})

\* C21 (amended): getFormatter never throws and returns null exactly for
\* format 'auto' or unset and for format 'custom' with an empty format
\* string, else a function that returns a string for any finite number; an
\* invalid custom specifier degrades to plain coercion.
C21_NullForAutoOrEmptyCustom ==
  /\ FormatterTotal
  /\ FormatDone => (fnResult[1].returned.kind = "null"
                      <=> \/ fnCall[1].opts.format \in {"", "auto"}
                          \/ /\ fnCall[1].opts.format = "custom"
                             /\ fnCall[1].opts.customFormat = <<>>)

\* a negative value has been formatted under an invalid custom specifier
C21_Witness ==
  /\ FormatDone
  /\ fnCall[1].opts.format = "custom"
  /\ fnCall[1].opts.customFormat = <<"a", "b", "c">>
  /\ fnCall[1].opts.prefix = ""
  /\ fnCall[1].value = 0 - 1234
  /\ fnResult[1].output = <<"-1234">>

\* the custom label configured for a role
CustomLabelOf(type, cfg) ==
  CASE type = "dimension" -> cfg.legendDimensionLabel
    [] type = "bar1" -> cfg.legendBar1Label
    [] type = "bar2" -> cfg.legendBar2Label
    [] type = "line" -> cfg.legendLineLabel

\* the name the precedence rule gives the call that has returned
NameByPrecedence ==
  (fnCall # <<>> /\ fnResult # <<>>) =>
    LET type == fnCall[1].type
        name == fnCall[1].fieldNames[type]
        cfg == fnCall[1].config
        r == fnResult[1]
    IN  /\ CustomLabelOf(type, cfg) # "" => r = CustomLabelOf(type, cfg)
        /\ (CustomLabelOf(type, cfg) = "" /\ type = "dimension" /\ cfg.xAxisTitle # "")
             => r = cfg.xAxisTitle
        /\ (CustomLabelOf(type, cfg) = "" /\ (type # "dimension" \/ cfg.xAxisTitle = ""))
             => r = (IF name # <<>> THEN Str(CleanFieldName(name))
                     ELSE IF type = "dimension" THEN "Category" ELSE "Unknown")

\* C22: getDisplayName returns the role's non-empty custom label; else, for
\* the dimension only, the configured x-axis title; else the field name with
\* its aggregation wrapper stripped; else 'Category' for an unmapped dimension
\* and 'Unknown' for an unmapped measure; and the call changes neither its
\* arguments nor the configuration.
C22_DisplayNamePrecedence ==
  /\ []NameByPrecedence
  /\ [][fnCall' = fnCall /\ config' = config /\ configCurrent' = configCurrent]_vars

\* a custom bar1 label has been read back over a wrapped field name
C22_Witness ==
  /\ fnCall # <<>>
  /\ fnCall[1].type = "bar1"
  /\ fnCall[1].fieldNames.bar1 = SumSalesField
  /\ fnCall[1].config.legendBar1Label = "Revenue"
  /\ fnResult = <<"Revenue">>

\* the configuration with a value outside a closed list replaced by the
\* default of that option
SafeEnums(cfg) ==
  [cfg EXCEPT !.barStyle = IF @ \in {"grouped", "stacked"} THEN @ ELSE "grouped",
              !.axisMode = IF @ \in {"dual", "shared"} THEN @ ELSE "dual"]

\* C23: with a barStyle outside {grouped, stacked} or an axisMode outside
\* {dual, shared} the render is the one of the default value (grouped, dual):
\* the same domains and every mapped bar series drawn.
C23_ClosedEnumFallback ==
  rendered # <<>> =>
    rendered[1] = RenderChart(chartProps[1].data, SafeEnums(chartProps[1].config))

\* the line drawn by the latest render
LineOnSurface == {m \in svg : m.el = "line"}

\* the dash pattern of a drawn-on line is the configured one
SettledLineDash ==
  \A m \in LineOnSurface :
    m.settled => m.dash = LineDash(chartProps[1].config.lineStyle)

\* C24: once the draw-on of the line has ended, its dash pattern is the one
\* lineStyle configures (dashed 8,4, dotted 2,2, solid none), the one it has
\* without animation; the path-length pattern does not remain.
C24_DashRestoredAfterDrawOn ==
  /\ []SettledLineDash
  /\ (\E m \in LineOnSurface : m.dash = "pathLength")
       ~> (\A m \in LineOnSurface : m.settled /\ m.dash # "pathLength")

\* the draw-on of a dashed line has ended
C24_Witness ==
  /\ chartProps # <<>>
  /\ chartProps[1].config.animationEnabled
  /\ chartProps[1].config.lineStyle = "dashed"
  /\ \E m \in LineOnSurface : m.settled /\ m.dash = "8,4"
  /\ \A t \in transitions : t.el # "line"

\* the element names and rows on the surface
MarksOf(elements) == {<<m.el, m.row>> : m \in elements}

\* C25: after any sequence of renders and transition ends, the surface holds
\* exactly the elements of the latest render and nothing of an earlier one,
\* and once its transitions have ended the surface is determined by the
\* latest rows and options alone.
C25_RenderReplacesOutput ==
  generation >= 1 =>
    LET p == chartProps[1]
        latest == IF Len(p.data) = 0 THEN {}
                  ELSE DrawnElements(generation, p.data, p.config)
    IN  /\ \A m \in svg : m.gen = generation
        /\ MarksOf(svg) = MarksOf(latest)
        /\ (\A t \in transitions : t.gen # generation)
             => svg = {[m EXCEPT !.settled = TRUE,
                                 !.dash = IF m.el = "line" THEN LineDash(p.config.lineStyle)
                                          ELSE "none"] : m \in latest}

\* a second render has replaced a first one whose transitions still run
C25_Witness ==
  /\ generation = 2
  /\ \E t \in transitions : t.gen = 1
  /\ \E m \in svg : m.el = "bar1" /\ m.gen = 2 /\ m.settled
  /\ Len(chartProps[1].data) = 1

\* C26: for every pointer position and every tooltip size not larger than
\* the viewport, the placed tooltip lies within the viewport: left and top
\* are not negative, and left + width and top + height do not exceed the
\* viewport's width and height.
C26_TooltipWithinViewport ==
  (fnCall # <<>> /\ fnResult # <<>>) =>
    /\ fnResult[1].left >= 0
    /\ fnResult[1].top >= 0
    /\ fnResult[1].left + fnCall[1].width <= ViewportSize
    /\ fnResult[1].top + fnCall[1].height <= ViewportSize

\* the three channels of a colour, as numbers
ChannelsOf(color) ==
  [i \in 1..3 |-> 16 * HexValue(color[2 * i]) + HexValue(color[2 * i + 1])]

\* color is base with every channel reduced by 51 (20 percent of 255) and
\* clamped at 0
IsDarkened(color, base) ==
  /\ Len(color) = 7
  /\ color[1] = "#"
  /\ \A i \in 2..7 : \E v \in 1..16 : HexChars[v] = color[i]
  /\ \A i \in 1..3 :
       ChannelsOf(color)[i] =
         (IF ChannelsOf(base)[i] < 51 THEN 0
          ELSE ChannelsOf(base)[i] - 51)

PaletteApplied == fnCall # <<>> /\ fnResult # <<>>

KnownPalette(paletteId) ==
  /\ paletteId \in DOMAIN colorPalettes
  /\ Len(colorPalettes[paletteId].colors) >= 3

ColourKeys == {"colorPalette", "bar1Color", "bar2Color", "lineColor",
               "pointFill", "bar1BorderColor", "bar2BorderColor"}

\* C27: applying a known palette sets colorPalette, bar1Color = colors[0],
\* bar2Color = colors[1], lineColor = pointFill = colors[2] and both border
\* colours to the darkened fill colours, in one step and leaving the other
\* keys alone; applying an unknown id leaves every key unchanged.
C27_PaletteAllOrNothing ==
  PaletteApplied =>
    LET before == fnCall[1].config
        id == fnCall[1].paletteId
        after == fnResult[1].config
    IN  /\ DOMAIN after = DOMAIN before
        /\ \A k \in DOMAIN before \ ColourKeys : after[k] = before[k]
        /\ IF KnownPalette(id)
           THEN LET colors == colorPalettes[id].colors
                IN  /\ after.colorPalette = id
                    /\ after.bar1Color = colors[1]
                    /\ after.bar2Color = colors[2]
                    /\ after.lineColor = colors[3]
                    /\ after.pointFill = colors[3]
                    /\ IsDarkened(after.bar1BorderColor, colors[1])
                    /\ IsDarkened(after.bar2BorderColor, colors[2])
           ELSE after = before

\* a palette whose first colour has a channel below the amount is applied
\* to a configuration with picked colours
C27_Witness ==
  /\ PaletteApplied
  /\ fnCall[1].paletteId = "colorBlind"
  /\ fnCall[1].config # DefaultColors
  /\ fnResult[1].config # fnCall[1].config
  /\ ChannelsOf(fnResult[1].config.bar1BorderColor)[1] = 0

RoundTripDone ==
  fnCall # <<>> /\ fnResult # <<>> /\ fnResult[1].loaded # <<>>

\* C28: every value of the configuration, encoded for settings.set and
\* decoded on load, is equal to the original and of the same type.
C28_PersistenceRoundTrip ==
  RoundTripDone =>
    \A k \in DOMAIN fnCall[1] : fnResult[1].loaded[1][k] = fnCall[1][k]

\* numbers, booleans, null and objects come back equal and of the same type
C28_NonStringsRoundTrip ==
  RoundTripDone =>
    \A k \in DOMAIN fnCall[1] :
      fnCall[1][k].type # "string" =>
        fnResult[1].loaded[1][k] = fnCall[1][k]

\* value v (units) lies within domain d (tenths of a unit, either order)
Within(d, v) ==
  \/ d[1] <= 10 * v /\ 10 * v <= d[2]
  \/ d[2] <= 10 * v /\ 10 * v <= d[1]

\* a chart with axes is drawn and no explicit minimum is set
AutoDomainDrawn ==
  /\ rendered # <<>>
  /\ rendered[1].axes
  /\ chartProps[1].config.yAxisLeftMin = <<>>
  /\ chartProps[1].config.barStyle \in {"grouped", "stacked"}

\* the values plotted against the left axis: the bars (the sum of a
\* category's bars when stacked) and, in shared mode, the line
LeftValues(data, cfg) ==
  LET bar1(i) == IF cfg.bar1Measure # "" THEN data[i][cfg.bar1Measure] ELSE 0
      bar2(i) == IF cfg.bar2Measure # "" THEN data[i][cfg.bar2Measure] ELSE 0
  IN  {bar1(i) : i \in {j \in DOMAIN data : cfg.bar1Measure # ""}}
      \cup {bar2(i) : i \in {j \in DOMAIN data : cfg.bar2Measure # ""}}
      \cup (IF cfg.barStyle = "stacked"
            THEN {bar1(i) + bar2(i) : i \in DOMAIN data} ELSE {})
      \cup (IF cfg.axisMode = "shared"
            THEN {data[i][cfg.lineMeasure] :
                    i \in {j \in DOMAIN data : cfg.lineMeasure # ""}}
            ELSE {})

\* the values plotted against the right axis: the line
RightValues(data, cfg) ==
  {data[i][cfg.lineMeasure] : i \in {j \in DOMAIN data : cfg.lineMeasure # ""}}

\* C29: with no explicit minimum or maximum, the domain of the left scale
\* contains every bar value (the per-category sum when stacked) and, in
\* shared mode, every line value, and the domain of the right scale
\* contains every line value, negative values included.
C29_AutoDomainCoversData ==
  AutoDomainDrawn =>
    LET p == chartProps[1]
        r == rendered[1]
    IN  /\ \A v \in LeftValues(p.data, p.config) : Within(r.yLeft, v)
        /\ \A v \in RightValues(p.data, p.config) : Within(r.yRight, v)

\* the same for charts without negative values whose bars and line have
\* axes of their own
C29_NonNegativeDualCovered ==
  (/\ AutoDomainDrawn
   /\ chartProps[1].config.axisMode # "shared"
   /\ \A i \in DOMAIN chartProps[1].data : chartProps[1].data[i].Sales >= 0) =>
    LET p == chartProps[1]
        r == rendered[1]
    IN  /\ \A v \in LeftValues(p.data, p.config) : Within(r.yLeft, v)
        /\ \A v \in RightValues(p.data, p.config) : Within(r.yRight, v)

\* stacked bars on a shared axis, no negative value
C29_SharedStackedCovered ==
  (/\ AutoDomainDrawn
   /\ chartProps[1].config.axisMode = "shared"
   /\ \A i \in DOMAIN chartProps[1].data : chartProps[1].data[i].Sales >= 0) =>
    \A v \in LeftValues(chartProps[1].data, chartProps[1].config) :
      Within(rendered[1].yLeft, v)

\* once no load is in flight, the error state is the one written by the
\* most recently started load and, if that load succeeded, so are the rows,
\* columns and encoding map
NewestShown ==
  (inFlight = {} /\ shown # <<>>) =>
    /\ shown[1].by = started
    /\ error = "null" => shown[1].rows = started

\* loading is true while a load is in flight
LoadingUntilSettled == inFlight # {} => loading

\* C30: when loads overlap, after all have completed the displayed rows,
\* columns, encoding map and error state are those of the most recently
\* started load, and loading stays true until no load is in flight.
C30_NewestLoadWins == NewestShown /\ LoadingUntilSettled
====
